---- MODULE Spec2Model ----
(***************************************************************************)
(* Model of the gamedata extraction pipeline of gm8emu (src/src/reader.rs): *)
(* find_gamedata and the probes and transforms it calls.                   *)
(*                                                                         *)
(* Representation.  TLC's integers are 32-bit signed, so an unsigned       *)
(* 32-bit value (and the 64-bit cursor position) is a record               *)
(* [hi |-> h, lo |-> l] standing for h * 65536 + l with 0 <= l < 65536;    *)
(* a u32 has h < 65536.  A byte slice is a record [len, mem]: mem maps the *)
(* offsets that hold a non-zero byte to that byte, every other offset      *)
(* below len holds 0.  An io::Cursor adds the field pos.                   *)
(***************************************************************************)
EXTENDS Integers, Sequences, FiniteSets, TLC

VARIABLES
    pc,        \* the position of the call being modelled
    exe,       \* the image cursor: [len, mem, pos]
    orig,      \* the image as it was handed in (history)
    logger,    \* whether a logger was passed (Some) or not (None)
    build,     \* "debug" (overflow checks on) or "release" (wrapping)
    result,    \* what the call returned, "none" while running, "panic" on abort
    trace,     \* the probes / operations run so far, in order
    unpacked,  \* the buffer unpack_upx returned, or NoBuffer
    params,    \* the antidec2 parameters in use
    gm81,      \* decrypt_gm81's locals at its log line: hash_key, seed1, seed2
    upx,       \* unpack_upx's locals while it runs
    prior,     \* the outcome of an earlier call on the same image (history)
    constants, \* Compiler::constants: the values registered, by name
    calls,     \* the register_constant calls made so far, in order (history)
    lexer,     \* Lexer: src, the iterator's position, line_hint
    tokens     \* what Lexer::next returned so far, in order (history)

\* the state of the GML compiler and lexer
gml == <<constants, calls, lexer, tokens>>

vars ==
    <<pc, exe, orig, logger, build, result, trace, unpacked, params, gm81, upx, prior,
      gml>>

-----------------------------------------------------------------------------
(* Unsigned 32-bit arithmetic.                                             *)

U(h, l) == [hi |-> h, lo |-> l]

Zero32 == U(0, 0)

One32 == U(0, 1)

RECURSIVE xor_bits(_, _, _)
xor_bits(a, b, n) ==
    IF n = 0 THEN 0
    ELSE ((a + b) % 2) + 2 * xor_bits(a \div 2, b \div 2, n - 1)

\* a function as the table of its values: f @@ g is TLC's union of two
\* tables, and the empty one adds nothing
Table(f) == f @@ <<>>

XorByte == Table([xa \in 0..255 |-> Table([xb \in 0..255 |-> xor_bits(xa, xb, 8)])])

Xor16(a, b) ==
    XorByte[a \div 256][b \div 256] * 256 + XorByte[a % 256][b % 256]

\* u32 ^ u32
BitXor(a, b) == U(Xor16(a.hi, b.hi), Xor16(a.lo, b.lo))

from_le_bytes(b) == U(b[4] * 256 + b[3], b[2] * 256 + b[1])

to_le_bytes(w) == <<w.lo % 256, w.lo \div 256, w.hi % 256, w.hi \div 256>>

swap_bytes(w) ==
    LET b == to_le_bytes(w) IN from_le_bytes(<<b[4], b[3], b[2], b[1]>>)

\* the exact sum of two values (no reduction of the high part)
ExactAdd(a, b) ==
    LET l == a.lo + b.lo IN U(a.hi + b.hi + (l \div 65536), l % 65536)

Wrap32(w) == U(w.hi % 65536, w.lo)

Overflows32(w) == w.hi >= 65536

wrapping_add(a, b) == Wrap32(ExactAdd(a, b))

wrapping_sub(a, b) ==
    LET l == a.lo - b.lo
        borrow == IF l < 0 THEN 1 ELSE 0
    IN U((a.hi - b.hi - borrow + 65536) % 65536, (l + 65536) % 65536)

\* a value as a TLC integer; only for values known to lie below 2^30
ToInt(w) == w.hi * 65536 + w.lo

FromInt(n) == U(n \div 65536, n % 65536)

\* w <= n for a value w and a TLC integer n >= 0
LeqInt(w, n) == w.hi <= n \div 65536 /\ ToInt(w) <= n

-----------------------------------------------------------------------------
(* Byte slices and cursors.                                                *)

\* let x = v; ...: the value v, computed once, under the name the body uses
With(v, F(_)) == F(v)

NoMem == [i \in {} |-> 0]

ByteAt(mem, i) == IF i \in DOMAIN mem THEN mem[i] ELSE 0

PutByte(mem, i, v) ==
    IF v = 0
    THEN Table([j \in DOMAIN mem \ {i} |-> mem[j]])
    ELSE Table([j \in DOMAIN mem \cup {i} |-> IF j = i THEN v ELSE mem[j]])

\* the bytes written at at, at + 1, ...
PutBytes(mem, at, bytes) ==
    LET range == at..(at + Len(bytes) - 1)
        val(i) == IF i \in range THEN bytes[i - at + 1] ELSE mem[i]
    IN Table([i \in {j \in DOMAIN mem \cup range : val(j) # 0} |-> val(i)])

BytesAt(mem, at, n) == [k \in 1..n |-> ByteAt(mem, at + k - 1)]

Cursor(len, mem, pos) == [len |-> len, mem |-> mem, pos |-> pos]

NoBuffer == Cursor(0, NoMem, Zero32)

\* io::Cursor::set_position: any position is accepted
set_position(cur, p) == [cur EXCEPT !.pos = p]

\* io::Cursor::seek(SeekFrom::Current(n)); the model only seeks to positions >= 0
seek_current(cur, n) ==
    IF n >= 0
    THEN [cur EXCEPT !.pos = ExactAdd(cur.pos, FromInt(n))]
    ELSE [cur EXCEPT !.pos = FromInt(ToInt(cur.pos) + n)]

\* whether n bytes can be read at the cursor
CanRead(cur, n) == LeqInt(ExactAdd(cur.pos, FromInt(n)), cur.len)

\* Read::read_exact: the bytes and the advanced cursor, or an UnexpectedEof error
read_exact(cur, n) ==
    IF CanRead(cur, n)
    THEN [ok |-> TRUE, val |-> BytesAt(cur.mem, ToInt(cur.pos), n),
          cur |-> seek_current(cur, n)]
    ELSE [ok |-> FALSE, val |-> <<>>, cur |-> cur]

read_u8(cur) ==
    With(read_exact(cur, 1), LAMBDA r :
        [ok |-> r.ok, val |-> IF r.ok THEN r.val[1] ELSE 0, cur |-> r.cur])

read_u32_le(cur) ==
    With(read_exact(cur, 4), LAMBDA r :
        [ok |-> r.ok, val |-> IF r.ok THEN from_le_bytes(r.val) ELSE Zero32,
         cur |-> r.cur])

\* WriteBytes::write_u32_le at a position where 4 bytes fit
write_u32_le(cur, w) ==
    [cur EXCEPT !.mem = PutBytes(cur.mem, ToInt(cur.pos), to_le_bytes(w)),
                !.pos = ExactAdd(cur.pos, FromInt(4))]

-----------------------------------------------------------------------------
(* decrypt_antidec, reader.rs 483-513.                                     *)

\* the body of the loop over game_data.rchunks_exact_mut(4): chunk k (k = 0
\* is the last 4 bytes of the buffer) of n, with the masks as they stand
mutant_antidec_value(value, xor_mask, add_mask) ==
    swap_bytes(BitXor(wrapping_add(value, add_mask), xor_mask))

antidec_value(value, xor_mask, add_mask) ==
    swap_bytes(wrapping_add(BitXor(value, xor_mask), add_mask))

RECURSIVE antidec_chunks(_, _, _, _, _, _, _)
antidec_chunks(mem, len, k, n, xor_mask, add_mask, sub_mask) ==
    IF k = n THEN mem
    ELSE LET at == len - 4 * (k + 1)
             value == from_le_bytes(BytesAt(mem, at, 4))
         IN antidec_chunks(
                PutBytes(mem, at, to_le_bytes(antidec_value(value, xor_mask, add_mask))),
                len, k + 1, n,
                wrapping_sub(xor_mask, sub_mask),
                wrapping_add(swap_bytes(add_mask), One32),
                sub_mask)

\* the cursor position computed at line 511, in u32 arithmetic
antidec_position(exe_load_offset, header_start) ==
    ExactAdd(ExactAdd(exe_load_offset, header_start), FromInt(4))

\* as decrypt_antidec, with the words counted from the start of the region
mutant_decrypt_antidec(data, p, bld) ==
    IF ~ LeqInt(p.exe_load_offset, data.len)
    THEN [panic |-> TRUE, data |-> data]
    ELSE With(ToInt(p.exe_load_offset), LAMBDA off :
         With([data EXCEPT !.mem =
                  antidec_chunks(data.mem, data.len - ((data.len - off) % 4), 0,
                                 (data.len - off) \div 4,
                                 p.xor_mask, p.add_mask, p.sub_mask)], LAMBDA done :
         With(antidec_position(p.exe_load_offset, p.header_start), LAMBDA sum :
             IF Overflows32(sum) /\ bld = "debug"
             THEN [panic |-> TRUE, data |-> done]
             ELSE [panic |-> FALSE, data |-> set_position(done, Wrap32(sum))])))

\* [panic, data]: line 491 aborts when exe_load_offset > len (unwrap of None);
\* line 511 overflows when the sum reaches 2^32: an abort in a debug build, a
\* wrapped value in a release build
decrypt_antidec(data, p, bld) ==
    IF ~ LeqInt(p.exe_load_offset, data.len)
    THEN [panic |-> TRUE, data |-> data]
    ELSE With(ToInt(p.exe_load_offset), LAMBDA off :
         With([data EXCEPT !.mem =
                  antidec_chunks(data.mem, data.len, 0, (data.len - off) \div 4,
                                 p.xor_mask, p.add_mask, p.sub_mask)], LAMBDA done :
         With(antidec_position(p.exe_load_offset, p.header_start), LAMBDA sum :
             IF Overflows32(sum) /\ bld = "debug"
             THEN [panic |-> TRUE, data |-> done]
             ELSE [panic |-> FALSE, data |-> set_position(done, Wrap32(sum))])))

Params(o, h, x, a, s) ==
    [exe_load_offset |-> o, header_start |-> h, xor_mask |-> x, add_mask |-> a,
     sub_mask |-> s]

NoParams == Params(Zero32, Zero32, Zero32, Zero32, Zero32)

NoGm81 == [hash_key |-> <<>>, seed1 |-> Zero32, seed2 |-> Zero32]

\* unpack_upx's locals before it is called: data is the input cursor, out
\* and len the output vector, bit the carry of the last shift (did_wrap17),
\* st is "run" while decoding, then "done", "IO" or "panic"
NoUpx ==
    [data |-> NoBuffer, out |-> NoMem, len |-> 0, u_var9 |-> Zero32,
     u_var6 |-> Zero32, i_var5 |-> Zero32, u_var12 |-> Zero32,
     pu_var14 |-> Zero32, did_wrap18 |-> FALSE, pull_new |-> FALSE,
     bit |-> FALSE, st |-> "none"]

NoPrior == [result |-> "none", exe |-> NoBuffer]

\* Compiler::new(): no constant is registered
NoConstants == [n \in {} |-> 0]

\* a Lexer over the empty source
NoLexer == [src |-> <<>>, buf |-> <<>>, line_hint |-> 1, pos |-> 0]

-----------------------------------------------------------------------------
(* decrypt_gm81, reader.rs 360-427.                                        *)

Pow2 == Table([pw \in 0..15 |-> 2 ^ pw])

Shl1(w) == U((w.hi * 2 + (w.lo \div 32768)) % 65536, (w.lo * 2) % 65536)

Shr1(w) == U(w.hi \div 2, (w.hi % 2) * 32768 + (w.lo \div 2))

Shr8(w) == U(w.hi \div 256, (w.hi % 256) * 256 + (w.lo \div 256))

\* w | (1 << k), for a bit k that is clear in w
SetBit(w, k) == IF k < 16 THEN U(w.hi, w.lo + Pow2[k]) ELSE U(w.hi + Pow2[k - 16], w.lo)

\* the closure crc_32_reflect (372-381): the loop for i in 1..=c over the
\* state s = [i, value, rvalue]
RECURSIVE crc_32_reflect_loop(_, _)
crc_32_reflect_loop(s, c) ==
    IF s.i > c THEN s.rvalue
    ELSE crc_32_reflect_loop(
             [i |-> s.i + 1,
              value |-> Shr1(s.value),
              rvalue |-> IF s.value.lo % 2 # 0 THEN SetBit(s.rvalue, c - s.i)
                         ELSE s.rvalue],
             c)

crc_32_reflect(value, c) ==
    crc_32_reflect_loop([i |-> 1, value |-> value, rvalue |-> Zero32], c)

crc_polynomial == U(1217, 7607)    \* 0x04C11DB7

\* one pass of the loop at 391-398
mutant_crc_shift(entry) ==
    BitXor(Shl1(entry), IF entry.lo % 2 = 1 THEN crc_polynomial ELSE Zero32)

crc_shift(entry) ==
    BitXor(Shl1(entry), IF entry.hi >= 32768 THEN crc_polynomial ELSE Zero32)

\* the loop at 391-398 over the state s = [left, entry]
RECURSIVE crc_shifts_loop(_)
crc_shifts_loop(s) ==
    IF s.left = 0 THEN s.entry
    ELSE crc_shifts_loop([left |-> s.left - 1, entry |-> crc_shift(s.entry)])

crc_shifts(entry) == crc_shifts_loop([left |-> 8, entry |-> entry])

\* the table generated at 387-400
crc_table ==
    Table([ti \in 0..255 |->
        crc_32_reflect(
            crc_shifts(U((crc_32_reflect(U(0, ti), 8).lo % 256) * 256, 0)),  \* << 24
            32)])

\* the closure crc_32 (365-371): the loop over the bytes of hash_key, from
\* the state s = [result, rest]
RECURSIVE crc_32_loop(_)
crc_32_loop(s) ==
    IF s.rest = <<>> THEN s.result
    ELSE crc_32_loop(
             [result |-> BitXor(Shr8(s.result),
                                crc_table[XorByte[s.result.lo % 256][Head(s.rest)]]),
              rest |-> Tail(s.rest)])

crc_32(hash_key) == crc_32_loop([result |-> U(65535, 65535), rest |-> hash_key])

\* the decimal digits of a u32, as ASCII bytes (format!("{}", v))
RECURSIVE Decimal(_)
Decimal(w) ==
    LET t == (w.hi % 10) * 65536 + w.lo
        q == U(w.hi \div 10, t \div 10)
    IN IF q = Zero32 THEN <<48 + (t % 10)>> ELSE Append(Decimal(q), 48 + (t % 10))

\* format!("_MJD{}#RWK", v) as bytes
hash_key_of(v) == <<95, 77, 74, 68>> \o Decimal(v) \o <<35, 82, 87, 75>>

\* each byte followed by a zero byte (384)
utf16(bytes) ==
    [k \in 1..(2 * Len(bytes)) |-> IF k % 2 = 1 THEN bytes[(k + 1) \div 2] ELSE 0]

\* (0x1FFFF & seed) * k + (seed >> 16), as the exact integer
mutant_gm81_seed(seed, k) ==
    LET low == seed.lo + (seed.hi % 2) * 65536
        a == low * (k % 256)
        b == low * (k \div 256)
        t == a + (b % 256) * 256
    IN ExactAdd(U((b \div 256) + (t \div 65536), t % 65536), U(0, seed.hi))

\* (0xFFFF & seed) * k + (seed >> 16), as the exact integer (419, 420)
gm81_seed(seed, k) ==
    LET a == seed.lo * (k % 256)
        b == seed.lo * (k \div 256)
        t == a + (b % 256) * 256
    IN ExactAdd(U((b \div 256) + (t \div 65536), t % 65536), U(0, seed.hi))

\* (seed1 << 16) + (seed2 & 0xFFFF), as the exact integer (421)
mutant_gm81_mask(seed1, seed2) == ExactAdd(U(seed2.lo, 0), U(0, seed1.lo))

gm81_mask(seed1, seed2) == ExactAdd(U(seed1.lo, 0), U(0, seed2.lo))

\* the bytes skipped at 414
gm81_skip(seed2) == (seed2.lo % 256) + 10

\* xor_mask ^ dword (422)
mutant_gm81_dword(xor_mask, dword) == wrapping_add(xor_mask, dword)

gm81_dword(xor_mask, dword) == BitXor(xor_mask, dword)

\* one pass of the loop at 417-423 over s = [st, data, seed1, seed2]: st is
\* "loop", "done" (the read failed) or "panic"; an overflowing +, * aborts a
\* debug build and wraps in a release build
gm81_word(s, bld) ==
    With(read_u32_le(s.data), LAMBDA r :
    With(gm81_seed(s.seed1, 36969), LAMBDA s1 :   \* 0x9069
    With(gm81_seed(s.seed2, 18000), LAMBDA s2 :   \* 0x4650
    With(gm81_mask(Wrap32(s1), Wrap32(s2)), LAMBDA xor_mask :
        IF ~ r.ok THEN [s EXCEPT !.st = "done"]
        ELSE IF bld = "debug"
                /\ (Overflows32(s1) \/ Overflows32(s2) \/ Overflows32(xor_mask))
             THEN [s EXCEPT !.st = "panic"]
             ELSE [st |-> "loop",
                   data |-> write_u32_le(s.data, gm81_dword(Wrap32(xor_mask), r.val)),
                   seed1 |-> Wrap32(s1), seed2 |-> Wrap32(s2)]))))

RECURSIVE gm81_words(_, _)
gm81_words(s, bld) ==
    IF s.st # "loop" THEN [panic |-> s.st = "panic", data |-> s.data]
    ELSE gm81_words(gm81_word(s, bld), bld)

\* the loop at 417-423: [panic, data]
gm81_loop(data, seed1, seed2, bld) ==
    gm81_words([st |-> "loop", data |-> data, seed1 |-> seed1, seed2 |-> seed2], bld)

\* the two values read from the stream (383, 403): the one formatted into the
\* hash key and the one that becomes seed1
mutant_gm81_reads(data) ==
    With(read_u32_le(data), LAMBDA r1 :
    With(read_u32_le(r1.cur), LAMBDA r2 :
        [ok |-> r1.ok /\ r2.ok, key |-> r2.val, seed1 |-> r1.val, cur |-> r2.cur]))

gm81_reads(data) ==
    With(read_u32_le(data), LAMBDA r1 :
    With(read_u32_le(r1.cur), LAMBDA r2 :
        [ok |-> r1.ok /\ r2.ok, key |-> r1.val, seed1 |-> r2.val, cur |-> r2.cur]))

\* data.set_position(old_position) (425)
mutant_gm81_restore(data, old_position) == data

gm81_restore(data, old_position) == set_position(data, old_position)

\* [res, data, locals]: res is "ok", "IO" or "panic"
decrypt_gm81(data, bld) ==
    With(gm81_reads(data), LAMBDA r :
    With(hash_key_of(r.key), LAMBDA hash_key :
    With(crc_32(utf16(hash_key)), LAMBDA seed2 :
    With([hash_key |-> hash_key, seed1 |-> r.seed1, seed2 |-> seed2], LAMBDA locals :
    With(r.cur.pos, LAMBDA old_position :
    With(gm81_loop(seek_current(r.cur, gm81_skip(seed2)), r.seed1, seed2, bld),
         LAMBDA l :
        IF ~ r.ok THEN [res |-> "IO", data |-> r.cur, locals |-> NoGm81]
        ELSE IF l.panic THEN [res |-> "panic", data |-> l.data, locals |-> locals]
        ELSE [res |-> "ok", data |-> gm81_restore(l.data, old_position),
              locals |-> locals]))))))

-----------------------------------------------------------------------------
(* check_antidec, reader.rs 443-479.                                       *)

GM80_HEADER_START_POS == 1329856    \* 0x144AC0

AntidecSequence == <<226, 247, 199, 5, 46, 47, 67, 0>>

\* u32::from_ne_bytes([b, b, b, b])
Broadcast(b) == U(b * 257, b * 257)

\* the dword at a fixed position, XORed with the mask
masked_dword(image, at, mask) ==
    BitXor(read_u32_le(set_position(image, FromInt(at))).val, mask)

mutant_antidec_header_start(image, mask) ==
    masked_dword(image, GM80_HEADER_START_POS, mask)

\* the header_start read at 464-465
antidec_header_start(image, mask) ==
    read_u32_le(set_position(image, FromInt(GM80_HEADER_START_POS))).val

\* [res, p, cur]: res is "some" with the parameters p, or "none"; every read
\* lies below the length checked at 445, so none of them fails
check_antidec(image) ==
    IF image.len < GM80_HEADER_START_POS + 4
    THEN [res |-> "none", p |-> NoParams, cur |-> image]
    ELSE With(read_exact(set_position(image, FromInt(205623)), 8), LAMBDA buf :   \* 0x32337
         With(read_u8(seek_current(buf.cur, -9)).val, LAMBDA byte_xor_mask :
         With(Broadcast(byte_xor_mask), LAMBDA dword_xor_mask :
             IF buf.val = AntidecSequence
             THEN [res |-> "some",
                   p |-> Params(masked_dword(image, 205481, dword_xor_mask),   \* 0x322A9
                                antidec_header_start(image, dword_xor_mask),
                                masked_dword(image, 205523, dword_xor_mask),   \* 0x322D3
                                masked_dword(image, 205528, dword_xor_mask),   \* 0x322D8
                                masked_dword(image, 205540, dword_xor_mask)),  \* 0x322E4
                   cur |-> set_position(image, FromInt(205544))]
             ELSE [res |-> "none", p |-> NoParams, cur |-> buf.cur])))

-----------------------------------------------------------------------------
(* check_gm80, reader.rs 155-274.                                          *)

Gm80Sequence == <<139, 69, 244, 232, 42, 189, 253, 255>>

Gm80VersionSequence == <<139, 198, 232, 7, 189, 253, 255>>

Gm80MagicJnz == <<15, 133, 24, 1, 0, 0>>

Gm80VersionJnz == <<15, 133, 245, 0, 0, 0>>

ProbeResult(res, cur) == [res |-> res, cur |-> cur]

\* the match on the instruction byte (174-197, 205-228): [res, magic, cur]
\* with res "some" (the guard is intact), "none" (patched out), "unknown"
\* (another instruction: the probe answers false) or "IO"
gm80_guard(cur, jnz) ==
    With(read_u8(cur), LAMBDA op :
    With(read_u32_le(op.cur), LAMBDA magic :
    With(read_exact(magic.cur, 6), LAMBDA buf :
        IF ~ op.ok THEN [res |-> "IO", magic |-> Zero32, cur |-> cur]
        ELSE IF op.val = 61                                   \* 0x3D
        THEN IF ~ magic.ok THEN [res |-> "IO", magic |-> Zero32, cur |-> op.cur]
             ELSE IF ~ buf.ok THEN [res |-> "IO", magic |-> Zero32, cur |-> magic.cur]
             ELSE IF buf.val = jnz
             THEN [res |-> "some", magic |-> magic.val, cur |-> buf.cur]
             ELSE [res |-> "none", magic |-> Zero32, cur |-> buf.cur]
        ELSE IF op.val = 144                                  \* 0x90
        THEN [res |-> "none", magic |-> Zero32, cur |-> seek_current(op.cur, 4)]
        ELSE [res |-> "unknown", magic |-> Zero32, cur |-> op.cur])))

\* the second guard (200-234): absent when the sequence at 0xA49E2 differs
gm80_header_ver(cur) ==
    With(read_exact(set_position(cur, FromInt(674274)), 7), LAMBDA buf :   \* 0xA49E2
        IF ~ buf.ok THEN [res |-> "IO", magic |-> Zero32, cur |-> buf.cur]
        ELSE IF buf.val = Gm80VersionSequence THEN gm80_guard(buf.cur, Gm80VersionJnz)
        ELSE [res |-> "none", magic |-> Zero32, cur |-> buf.cur])

\* the comparison of one header dword with a guard value (243-266):
\* res "ok", "differs" or "IO"
mutant_gm80_compare(cur, guard) ==
    With(read_u32_le(cur), LAMBDA header :
        IF ~ header.ok THEN ProbeResult("IO", cur)
        ELSE IF header.val # guard.magic THEN ProbeResult("differs", header.cur)
        ELSE ProbeResult("ok", header.cur))

gm80_compare(cur, guard) ==
    With(read_u32_le(cur), LAMBDA header :
        IF guard.res = "some"
        THEN IF ~ header.ok THEN ProbeResult("IO", cur)
             ELSE IF header.val # guard.magic THEN ProbeResult("differs", header.cur)
             ELSE ProbeResult("ok", header.cur)
        ELSE ProbeResult("ok", seek_current(cur, 4)))

\* lines 236-269, once both guards are parsed
gm80_header(cur, magic, ver) ==
    With(read_u32_le(set_position(cur, FromInt(GM80_HEADER_START_POS))),
         LAMBDA header_start :
    With(gm80_compare(set_position(header_start.cur, header_start.val), magic),
         LAMBDA c1 :
    With(gm80_compare(c1.cur, ver), LAMBDA c2 :
        IF ~ header_start.ok THEN ProbeResult("IO", header_start.cur)
        ELSE IF c1.res = "IO" THEN c1
        ELSE IF c1.res = "differs" THEN ProbeResult("false", c1.cur)
        ELSE IF c2.res = "IO" THEN c2
        ELSE IF c2.res = "differs" THEN ProbeResult("false", c2.cur)
        ELSE ProbeResult("true", seek_current(c2.cur, 8)))))

\* [res, cur]: res is "true", "false" or "IO"
mutant_check_gm80(image) ==
    With(read_exact(set_position(image, FromInt(674238)), 8), LAMBDA buf :   \* 0xA49BE
    With(gm80_guard(buf.cur, Gm80MagicJnz), LAMBDA magic :
    With(gm80_header_ver(magic.cur), LAMBDA ver :
        IF ~ buf.ok THEN ProbeResult("IO", buf.cur)
        ELSE IF buf.val # Gm80Sequence THEN ProbeResult("false", buf.cur)
        ELSE IF magic.res = "IO" THEN ProbeResult("IO", magic.cur)
        ELSE IF magic.res = "unknown" THEN ProbeResult("false", magic.cur)
        ELSE IF ver.res = "IO" THEN ProbeResult("IO", ver.cur)
        ELSE IF ver.res = "unknown" THEN ProbeResult("false", ver.cur)
        ELSE gm80_header(ver.cur, magic, ver))))

check_gm80(image) ==
    IF image.len < GM80_HEADER_START_POS + 4 THEN ProbeResult("false", image)
    ELSE With(read_exact(set_position(image, FromInt(674238)), 8), LAMBDA buf :   \* 0xA49BE
         With(gm80_guard(buf.cur, Gm80MagicJnz), LAMBDA magic :
         With(gm80_header_ver(magic.cur), LAMBDA ver :
             IF ~ buf.ok THEN ProbeResult("IO", buf.cur)
             ELSE IF buf.val # Gm80Sequence THEN ProbeResult("false", buf.cur)
             ELSE IF magic.res = "IO" THEN ProbeResult("IO", magic.cur)
             ELSE IF magic.res = "unknown" THEN ProbeResult("false", magic.cur)
             ELSE IF ver.res = "IO" THEN ProbeResult("IO", ver.cur)
             ELSE IF ver.res = "unknown" THEN ProbeResult("false", ver.cur)
             ELSE gm80_header(ver.cur, magic, ver))))

-----------------------------------------------------------------------------
(* check_gm81, reader.rs 278-357.                                          *)

Gm81Sequence == <<232, 128, 242, 221, 255, 199, 69, 240>>

Gm81Cmp == <<129, 125, 236>>

\* (a & 0xFF00FF00) + (b & 0x00FF00FF)
gm81_blend(a, b) ==
    U((a.hi - (a.hi % 256)) + (b.hi % 256), (a.lo - (a.lo % 256)) + (b.lo % 256))

\* the magic value at 301-319: [res, magic, cur], res "some", "none" or "IO"
gm81_magic(cur) ==
    With(read_exact(cur, 3), LAMBDA buf :
    With(read_u32_le(buf.cur), LAMBDA magic :
    With(read_u8(magic.cur), LAMBDA je :
        IF ~ buf.ok THEN [res |-> "IO", magic |-> Zero32, cur |-> cur]
        ELSE IF buf.val # Gm81Cmp THEN [res |-> "none", magic |-> Zero32, cur |-> buf.cur]
        ELSE IF ~ magic.ok THEN [res |-> "IO", magic |-> Zero32, cur |-> buf.cur]
        ELSE IF ~ je.ok THEN [res |-> "IO", magic |-> Zero32, cur |-> magic.cur]
        ELSE IF je.val = 116                                  \* 0x74
        THEN [res |-> "some", magic |-> magic.val, cur |-> je.cur]
        ELSE [res |-> "none", magic |-> Zero32, cur |-> je.cur])))

\* i += 1 (334)
mutant_gm81_next(i) == ExactAdd(i, FromInt(4))

gm81_next(i) == ExactAdd(i, One32)

\* one pass of the search loop at 327-338, at candidate offset i: res is
\* "true" (found), "false", "IO", or "loop" when the search goes on at i
gm81_candidate(cur, i, n) ==
    With(read_u32_le(set_position(cur, i)), LAMBDA a :
    With(read_u32_le(a.cur), LAMBDA b :
        IF ~ a.ok THEN [res |-> "IO", cur |-> a.cur, i |-> i]
        ELSE IF ~ b.ok THEN [res |-> "IO", cur |-> b.cur, i |-> i]
        ELSE IF gm81_blend(a.val, b.val) = n THEN [res |-> "true", cur |-> b.cur, i |-> i]
        ELSE IF ~ LeqInt(ExactAdd(gm81_next(i), FromInt(8)), cur.len - 1)
        THEN [res |-> "false", cur |-> b.cur, i |-> i]
        ELSE [res |-> "loop", cur |-> b.cur, i |-> gm81_next(i)]))

RECURSIVE gm81_search_loop(_, _)
gm81_search_loop(s, n) ==
    IF s.res # "loop" THEN ProbeResult(s.res, s.cur)
    ELSE gm81_search_loop(gm81_candidate(s.cur, s.i, n), n)

\* the search at 325-338 from candidate offset i: res "true", "false" or "IO"
gm81_search(cur, i, n) == gm81_search_loop(gm81_candidate(cur, i, n), n)

\* [res, cur, locals]: res is "true", "false", "IO" or "panic"
check_gm81(image, bld) ==
    IF image.len < 2256266                                     \* 0x226D8A
    THEN [res |-> "false", cur |-> image, locals |-> NoGm81]
    ELSE With(read_exact(set_position(image, FromInt(2256115)), 8), LAMBDA buf :   \* 0x226CF3
         With(read_u32_le(buf.cur), LAMBDA header_start :
         With(gm81_magic(seek_current(header_start.cur, 125)), LAMBDA magic :
         With(set_position(magic.cur, header_start.val), LAMBDA at :
         With(IF magic.res = "some"
              THEN gm81_search(at, header_start.val, magic.magic)
              ELSE ProbeResult("true", seek_current(at, 8)), LAMBDA found :
         With(decrypt_gm81(found.cur, bld), LAMBDA d :
             IF ~ buf.ok THEN [res |-> "IO", cur |-> buf.cur, locals |-> NoGm81]
             ELSE IF buf.val # Gm81Sequence
             THEN [res |-> "false", cur |-> buf.cur, locals |-> NoGm81]
             ELSE IF ~ header_start.ok
             THEN [res |-> "IO", cur |-> header_start.cur, locals |-> NoGm81]
             ELSE IF magic.res = "IO"
             THEN [res |-> "IO", cur |-> magic.cur, locals |-> NoGm81]
             ELSE IF found.res # "true"
             THEN [res |-> found.res, cur |-> found.cur, locals |-> NoGm81]
             ELSE IF d.res # "ok"
             THEN [res |-> d.res, cur |-> d.data, locals |-> d.locals]
             ELSE [res |-> "true", cur |-> seek_current(d.data, 20), locals |-> d.locals]))))))

-----------------------------------------------------------------------------
(* unpack_upx, reader.rs 516-725.  The locals live in one record s (see    *)
(* NoUpx); a step that fails sets s.st and every later step leaves s alone. *)

\* x >= 0x80000000
TopBit(w) == w.hi >= 32768

\* x.wrapping_mul(2).wrapping_add(1)
Shl1Plus1(w) == U(Shl1(w).hi, Shl1(w).lo + 1)

\* !x
BitNot(w) == U(65535 - w.hi, 65535 - w.lo)

\* ((x as i32) >> 1) as u32
Sar1(w) ==
    U((w.hi \div 2) + (IF TopBit(w) THEN 32768 ELSE 0),
      (w.hi % 2) * 32768 + (w.lo \div 2))

\* a < b for two u32 values
Less32(a, b) == a.hi < b.hi \/ (a.hi = b.hi /\ a.lo < b.lo)

\* a + b or a * 2 + b in checked arithmetic: an overflow aborts a debug
\* build (st becomes "panic") and wraps in a release build
upx_checked(s, field, exact, overflows, bld) ==
    IF s.st # "run" THEN s
    ELSE IF overflows /\ bld = "debug" THEN [s EXCEPT !.st = "panic"]
    ELSE [s EXCEPT ![field] = Wrap32(exact)]

mutant_upx_reload(s) ==
    With(read_u32_le(s.data), LAMBDA r :
        IF ~ r.ok THEN [s EXCEPT !.st = "done"]
        ELSE [s EXCEPT !.data = r.cur, !.bit = TopBit(r.val),
                       !.u_var9 = Shl1Plus1(r.val)])

\* x = read_u32_le()?; carry = x >= 0x80000000; x = x * 2 + 1
upx_reload(s) ==
    With(read_u32_le(s.data), LAMBDA r :
        IF ~ r.ok THEN [s EXCEPT !.st = "IO"]
        ELSE [s EXCEPT !.data = r.cur, !.bit = TopBit(r.val),
                       !.u_var9 = Shl1Plus1(r.val)])

\* carry = x >= 0x80000000; x = x * 2
upx_shift(s) == [s EXCEPT !.bit = TopBit(s.u_var9), !.u_var9 = Shl1(s.u_var9)]

\* the next bit of the bit buffer: the shift, and the reload when the shift
\* leaves 0 (597-603, 609-615, 630-636, 669-675; 577-583 with 585-596 and
\* 640-646 with 648-661 are this step twice, the buffer passing through
\* u_var10)
upx_getbit(s) ==
    IF s.st # "run" THEN s
    ELSE IF Shl1(s.u_var9) = Zero32 THEN upx_reload(s)
    ELSE upx_shift(s)

mutant_upx_literal(s) ==
    With(read_u8(s.data), LAMBDA r :
        IF ~ r.ok THEN [s EXCEPT !.st = "IO"]
        ELSE IF ~ LeqInt(s.pu_var14, s.len - 1) THEN [s EXCEPT !.st = "panic"]
        ELSE upx_shift([s EXCEPT !.data = r.cur,
                                 !.out = PutByte(s.out, ToInt(s.pu_var14) + 1, r.val),
                                 !.pu_var14 = ExactAdd(s.pu_var14, One32)]))

\* one pass of the literal loop at 559-568: a byte is read and stored, and
\* the bit buffer shifted
upx_literal(s) ==
    With(read_u8(s.data), LAMBDA r :
        IF ~ r.ok THEN [s EXCEPT !.st = "IO"]
        ELSE IF ~ LeqInt(s.pu_var14, s.len - 1) THEN [s EXCEPT !.st = "panic"]
        ELSE upx_shift([s EXCEPT !.data = r.cur,
                                 !.out = PutByte(s.out, ToInt(s.pu_var14), r.val),
                                 !.pu_var14 = ExactAdd(s.pu_var14, One32)]))

\* the literal loop at 559-568, from the state t its last pass left
RECURSIVE upx_literals(_)
upx_literals(t) ==
    IF t.st = "run" /\ t.u_var9 # Zero32 /\ t.bit THEN upx_literals(upx_literal(t))
    ELSE IF t.st = "run" THEN [t EXCEPT !.did_wrap18 = t.bit] ELSE t

\* 577-596: two bits; the first goes into u_var6, the second ends the loop
upx_prefix_bits(s, bld) ==
    With(upx_getbit(s), LAMBDA b1 :
        upx_getbit(upx_checked(b1, "u_var6",
            ExactAdd(ExactAdd(b1.i_var5, b1.i_var5), U(0, IF b1.bit THEN 1 ELSE 0)),
            TopBit(b1.i_var5), bld)))

\* 597-604: a third bit, and i_var5 for the next pass
upx_prefix_more(s, bld) ==
    With(upx_getbit(s), LAMBDA b3 :
    With(wrapping_sub(b3.u_var6, One32), LAMBDA less1 :
        upx_checked(b3, "i_var5",
            ExactAdd(ExactAdd(less1, less1), U(0, IF b3.bit THEN 1 ELSE 0)),
            b3.u_var6 = Zero32 \/ TopBit(less1), bld)))

\* the loop at 576-605, entered with i_var5 = 1: leaves the prefix in u_var6
RECURSIVE upx_prefix(_, _)
upx_prefix(s, bld) ==
    With(upx_prefix_bits(s, bld), LAMBDA b2 :
        IF b2.st # "run" \/ b2.bit THEN b2
        ELSE upx_prefix(upx_prefix_more(b2, bld), bld))

\* 608-625: the offset is kept (prefix 2) or read; bit is left holding the
\* short-length flag; st becomes "done" at the end marker
upx_offset(s) ==
    With(read_u8(s.data), LAMBDA r :
    With(wrapping_sub(s.u_var6, U(0, 3)), LAMBDA less3 :
    With(BitNot(U((less3.hi % 256) * 256 + (less3.lo \div 256),
                  (less3.lo % 256) * 256 + r.val)), LAMBDA u12 :
        IF s.st # "run" THEN s
        ELSE IF Less32(s.u_var6, U(0, 3)) THEN upx_getbit([s EXCEPT !.i_var5 = Zero32])
        ELSE IF ~ r.ok THEN [s EXCEPT !.st = "IO"]
        ELSE IF u12 = Zero32
        THEN [s EXCEPT !.data = r.cur, !.i_var5 = Zero32, !.u_var12 = u12, !.st = "done"]
        ELSE [s EXCEPT !.data = r.cur, !.i_var5 = Zero32, !.u_var12 = Sar1(u12),
                       !.bit = (u12.lo % 2 # 0)])))

\* i_var5 = i_var5 * 2 + bit, on i32
upx_double(s, bld) ==
    upx_checked(s, "i_var5",
        ExactAdd(ExactAdd(s.i_var5, s.i_var5), U(0, IF s.bit THEN 1 ELSE 0)),
        s.i_var5.hi >= 16384, bld)

\* one pass of the loops at 638-662: a bit into i_var5, and the bit that ends
\* the loops
upx_length_pass(s, bld) == upx_getbit(upx_double(upx_getbit(s), bld))

\* the loops at 638-662, from the state b their last pass left
RECURSIVE upx_length_loop(_, _)
upx_length_loop(b, bld) ==
    IF b.st # "run" \/ b.bit THEN b
    ELSE upx_length_loop(upx_length_pass(b, bld), bld)

\* 627-677: leaves the length code in i_var5
upx_length(s, bld) ==
    With(upx_getbit([s EXCEPT !.i_var5 = One32]), LAMBDA one :
    With(upx_length_loop(upx_length_pass(one, bld), bld), LAMBDA long :
        IF s.st # "run" THEN s
        ELSE IF s.bit THEN upx_double(upx_getbit(s), bld)
        ELSE IF one.st # "run" THEN one
        ELSE IF one.bit THEN upx_double(upx_getbit(one), bld)
        ELSE IF long.st # "run" THEN long
        ELSE upx_checked(long, "i_var5", ExactAdd(long.i_var5, U(0, 2)),
                         long.i_var5.hi = 32767 /\ long.i_var5.lo >= 65534, bld)))

\* what the copy loops (683-704, 707-717) leave in the output: n bytes go
\* from p8.. to p14.., each read before the write that could reach it, so a
\* source behind the cursor repeats with period p14 - p8
upx_copied(out, p8, p14, n) ==
    LET d == p14 - p8
        src(k) == IF p8 < p14 THEN p8 + (k % d) ELSE p8 + k
        hit == {a \in DOMAIN out : a >= p8 /\ a < p8 + n /\ (p8 < p14 => a < p14)}
        new == IF p8 < p14
               THEN UNION {{p14 + (a - p8) + j * d : j \in 0..((n - 1 - (a - p8)) \div d)}
                           : a \in hit}
               ELSE {p14 + (a - p8) : a \in hit}
        keep == {a \in DOMAIN out : a < p14 \/ a >= p14 + n}
    IN Table([i \in keep \cup new |-> IF i \in new THEN out[src(i - p14)] ELSE out[i]])

\* the bytes the copy writes: whole dwords on the fast path (683-704), the
\* match length on the byte path (707-717)
upx_copy_bytes(u_var12, u_var10) ==
    IF Less32(u_var12, U(65535, 65533))
    THEN (IF u_var10 = Zero32 THEN 4 ELSE 4 * ((ToInt(u_var10) + 3) \div 4))
    ELSE ToInt(u_var10)

\* 679-718: an index at or past the end of the output aborts
upx_copy(s) ==
    With(wrapping_add(s.i_var5,
             U(0, 2 + (IF Less32(s.u_var12, U(65535, 64256)) THEN 1 ELSE 0))),
         LAMBDA u_var10 :
    With(wrapping_add(s.pu_var14, s.u_var12), LAMBDA pu_var8 :
    With(upx_copy_bytes(s.u_var12, u_var10), LAMBDA n :
        IF s.st # "run" THEN s
        ELSE IF TopBit(u_var10) \/ TopBit(pu_var8) \/ TopBit(s.pu_var14) \/ n = 0
        THEN [s EXCEPT !.st = "panic"]
        ELSE IF ToInt(pu_var8) > s.len - n \/ ToInt(s.pu_var14) > s.len - n
        THEN [s EXCEPT !.st = "panic"]
        ELSE [s EXCEPT !.out = upx_copied(s.out, ToInt(pu_var8), ToInt(s.pu_var14), n),
                       !.pu_var14 = wrapping_add(s.pu_var14, u_var10)])))

\* 575-722: one match, then the flag of what follows
upx_match(s, bld) ==
    With(upx_copy(upx_length(upx_offset(upx_prefix([s EXCEPT !.i_var5 = One32], bld)),
                             bld)), LAMBDA m :
    With(upx_shift(m), LAMBDA t :
        IF m.st # "run" THEN m
        ELSE [t EXCEPT !.did_wrap18 = t.bit, !.pull_new = (t.u_var9 = Zero32)]))

\* one pass of the loop at 550-723
upx_iteration(s, bld) ==
    With(upx_reload(s), LAMBDA pulled :
    With(IF s.pull_new THEN [pulled EXCEPT !.did_wrap18 = pulled.bit] ELSE s, LAMBDA s1 :
    With(upx_literals(upx_literal(s1)), LAMBDA s2 :
        IF s1.st # "run" THEN s1
        ELSE IF ~ s1.did_wrap18 THEN upx_match(s1, bld)
        ELSE IF s2.st # "run" THEN s2
        ELSE IF s2.u_var9 = Zero32 THEN [s2 EXCEPT !.pull_new = TRUE]
        ELSE upx_match(s2, bld))))

\* 524-549: the entry point sizes the output; an output of 2 GiB or more is
\* taken not to be allocated
upx_start(data) ==
    With(read_u8(set_position(data, FromInt(60))), LAMBDA pe_header :   \* 0x3C
    With(read_u32_le(set_position(pe_header.cur, FromInt(pe_header.val + 40))),
         LAMBDA entry_point :
    With(read_u32_le(seek_current(entry_point.cur, 361)), LAMBDA iv :
       IF ~ pe_header.ok THEN [NoUpx EXCEPT !.data = pe_header.cur, !.st = "IO"]
       ELSE IF ~ entry_point.ok THEN [NoUpx EXCEPT !.data = entry_point.cur, !.st = "IO"]
       ELSE IF TopBit(entry_point.val)
       THEN [NoUpx EXCEPT !.data = entry_point.cur, !.st = "panic"]
       ELSE IF ~ iv.ok THEN [NoUpx EXCEPT !.data = iv.cur, !.st = "IO"]
       ELSE [NoUpx EXCEPT !.data = iv.cur, !.len = ToInt(entry_point.val),
                          !.u_var9 = Shl1Plus1(iv.val), !.did_wrap18 = TopBit(iv.val),
                          !.u_var12 = U(65535, 65535), !.pu_var14 = FromInt(1024),
                          !.st = "run"])))

-----------------------------------------------------------------------------
(* SpecAntidec: decrypt_antidec applied to small buffers, directly or after *)
(* the antidec2 forward transform.                                         *)

MaxLen == 9

PatternSeeds == {3, 250}

PatternByte(s, i) == (s * (i + 1) + 11 * i) % 256

Pattern(s, n) ==
    [i \in {j \in 0..(n - 1) : PatternByte(s, j) # 0} |-> PatternByte(s, i)]

MaskVals == {U(0, 0), U(4660, 22136), U(65535, 65535)}

AddVals == {U(0, 0), U(255, 65281), U(65535, 65535)}

SubVals == {U(0, 0), U(0, 1), U(35243, 52719)}

HeaderVals == {U(0, 0), U(0, 7), U(65535, 65528), U(65535, 65535)}

\* the forward (encrypting) transform: per word the inverse operations, with
\* the masks evolving as in decrypt_antidec, last word first
antidec_forward_value(value, xor_mask, add_mask) ==
    BitXor(wrapping_sub(swap_bytes(value), add_mask), xor_mask)

RECURSIVE antidec_forward_chunks(_, _, _, _, _, _, _)
antidec_forward_chunks(mem, len, k, n, xor_mask, add_mask, sub_mask) ==
    IF k = n THEN mem
    ELSE LET at == len - 4 * (k + 1)
             value == from_le_bytes(BytesAt(mem, at, 4))
         IN antidec_forward_chunks(
                PutBytes(mem, at,
                         to_le_bytes(antidec_forward_value(value, xor_mask, add_mask))),
                len, k + 1, n,
                wrapping_sub(xor_mask, sub_mask),
                wrapping_add(swap_bytes(add_mask), One32),
                sub_mask)

InitAntidec ==
    /\ pc = "plain"
    /\ \E n \in 0..MaxLen, s \in PatternSeeds :
          exe = Cursor(n, Pattern(s, n), Zero32)
    /\ orig = exe
    /\ logger = FALSE
    /\ build \in {"debug", "release"}
    /\ result = "none"
    /\ trace = <<>>
    /\ unpacked = NoBuffer
    /\ \E o \in 0..(exe.len + 1), h \in HeaderVals, x \in MaskVals, a \in AddVals,
          s \in SubVals :
          params = Params(FromInt(o), h, x, a, s)
    /\ gm81 = NoGm81
    /\ upx = NoUpx
    /\ prior = NoPrior
    /\ constants = NoConstants
    /\ calls = <<>>
    /\ lexer = NoLexer
    /\ tokens = <<>>

\* the test harness encrypts the region the transform will decrypt
AntidecEncrypt ==
    /\ pc = "plain"
    /\ ToInt(params.exe_load_offset) <= exe.len
    /\ exe' = [exe EXCEPT !.mem =
                  antidec_forward_chunks(exe.mem, exe.len, 0,
                      (exe.len - ToInt(params.exe_load_offset)) \div 4,
                      params.xor_mask, params.add_mask, params.sub_mask)]
    /\ pc' = "cipher"
    /\ trace' = Append(trace, "encrypt")
    /\ UNCHANGED <<orig, logger, build, result, unpacked, params, gm81, upx, prior, gml>>

AntidecDecrypt ==
    /\ pc \in {"plain", "cipher"}
    /\ LET r == decrypt_antidec(exe, params, build)
       IN /\ exe' = r.data
          /\ result' = IF r.panic THEN "panic" ELSE "ok"
    /\ pc' = "done"
    /\ trace' = Append(trace, "decrypt_antidec")
    /\ UNCHANGED <<orig, logger, build, unpacked, params, gm81, upx, prior, gml>>

NextAntidec == AntidecEncrypt \/ AntidecDecrypt

SpecAntidec == InitAntidec /\ [][NextAntidec]_vars

-----------------------------------------------------------------------------
(* Claims about decrypt_antidec (SpecAntidec).                             *)

\* the masks in force for the j-th word from the end of the buffer
RECURSIVE RefXorMask(_, _)
RefXorMask(p, j) ==
    IF j = 0 THEN p.xor_mask ELSE wrapping_sub(RefXorMask(p, j - 1), p.sub_mask)

RECURSIVE RefAddMask(_, _)
RefAddMask(p, j) ==
    IF j = 0 THEN p.add_mask
    ELSE wrapping_add(swap_bytes(RefAddMask(p, j - 1)), One32)

\* the byte the reference transform leaves at offset i of buffer b
RefAntidecByte(b, p, i) ==
    LET off == ToInt(p.exe_load_offset)
        j == (b.len - 1 - i) \div 4
        at == b.len - 4 * (j + 1)
        w == from_le_bytes(BytesAt(b.mem, at, 4))
        new == swap_bytes(wrapping_add(BitXor(w, RefXorMask(p, j)), RefAddMask(p, j)))
    IN IF at < off THEN ByteAt(b.mem, i) ELSE to_le_bytes(new)[i - at + 1]

AntidecRan == pc = "done" /\ result = "ok"

\* C5: decrypt_antidec applied to a buffer leaves, at every offset, the byte
\* of the reference: the words of buffer[exe_load_offset..] taken from the end
\* of the buffer toward its start, word j replaced by
\* swap_bytes((w XOR xor_j) + add_j mod 2^32) with xor_0 = xor_mask,
\* add_0 = add_mask, xor_(j+1) = xor_j - sub_mask mod 2^32 and
\* add_(j+1) = swap_bytes(add_j) + 1 mod 2^32; sub_mask never changes.
C5_AntidecMatchesReference ==
    (AntidecRan /\ trace = <<"decrypt_antidec">>)
        => \A i \in 0..(exe.len - 1) :
              ByteAt(exe.mem, i) = RefAntidecByte(orig, params, i)

C5_Witness ==
    /\ AntidecRan /\ trace = <<"decrypt_antidec">>
    /\ exe.len - ToInt(params.exe_load_offset) >= 8
    /\ params.exe_load_offset # Zero32
    /\ params.sub_mask # Zero32 /\ params.add_mask # Zero32
    /\ exe.mem # orig.mem

\* C6: encrypting a plaintext with the forward transform and then running
\* decrypt_antidec with the same initial masks gives back the plaintext byte
\* for byte, for every region whose length is a multiple of 4 and every mask
\* triple.
C6_AntidecRoundTrip ==
    (AntidecRan /\ trace = <<"encrypt", "decrypt_antidec">>
        /\ (exe.len - ToInt(params.exe_load_offset)) % 4 = 0)
        => exe.mem = orig.mem

C6_Witness ==
    /\ AntidecRan /\ trace = <<"encrypt", "decrypt_antidec">>
    /\ exe.len - ToInt(params.exe_load_offset) = 8
    /\ params.xor_mask # Zero32 /\ params.add_mask # Zero32
    /\ params.sub_mask # Zero32
    /\ exe.mem = orig.mem /\ exe.mem # NoMem

\* C8 (as claimed): whenever decrypt_antidec has a region to work on
\* (exe_load_offset <= len), it returns and leaves the cursor at the exact
\* integer exe_load_offset + header_start + 4.
C8_CursorExactSum ==
    (pc = "done" /\ LeqInt(params.exe_load_offset, exe.len))
        => /\ result = "ok"
           /\ exe.pos = antidec_position(params.exe_load_offset, params.header_start)

-----------------------------------------------------------------------------
(* SpecGm81: decrypt_gm81 applied at a cursor position of a small buffer.  *)

MaxTail == 9

EntryPositions == {0, 3}

KeyVals == {U(0, 0), U(0, 12345), U(1, 0), U(65535, 65535)}

Seed1Vals == {U(0, 0), U(0, 1), U(43690, 21845), U(65535, 65535)}

\* the bytes skipped for a key value
SkipOf(v) == gm81_skip(crc_32(utf16(hash_key_of(v))))

\* a buffer of n bytes holding the pattern s, and the two values at p0 where
\* they fit
Gm81Image(n, s, p0, v1, v2) ==
    IF n >= p0 + 8
    THEN PutBytes(Pattern(s, n), p0, to_le_bytes(v1) \o to_le_bytes(v2))
    ELSE Pattern(s, n)

InitGm81 ==
    /\ pc = "gm81"
    /\ \E p0 \in EntryPositions, v1 \in KeyVals, v2 \in Seed1Vals, s \in PatternSeeds :
          \E n \in {p0, p0 + 4, p0 + 7, p0 + 8}
                     \cup {p0 + 8 + SkipOf(v1) + t : t \in 0..MaxTail} :
             exe = Cursor(n, Gm81Image(n, s, p0, v1, v2), FromInt(p0))
    /\ orig = exe
    /\ logger \in BOOLEAN
    /\ build \in {"debug", "release"}
    /\ result = "none"
    /\ trace = <<>>
    /\ unpacked = NoBuffer
    /\ params = NoParams
    /\ gm81 = NoGm81
    /\ upx = NoUpx
    /\ prior = NoPrior
    /\ constants = NoConstants
    /\ calls = <<>>
    /\ lexer = NoLexer
    /\ tokens = <<>>

Gm81Decrypt ==
    /\ pc = "gm81"
    /\ LET r == decrypt_gm81(exe, build)
       IN /\ exe' = r.data
          /\ result' = r.res
          /\ gm81' = r.locals
    /\ pc' = "done"
    /\ trace' = Append(trace, "decrypt_gm81")
    /\ UNCHANGED <<orig, logger, build, unpacked, params, upx, prior, gml>>

\* the transform once more, from the cursor position of the first call
Gm81Again ==
    /\ pc = "done"
    /\ result = "ok"
    /\ trace = <<"decrypt_gm81">>
    /\ LET r == decrypt_gm81(set_position(exe, orig.pos), build)
       IN /\ exe' = r.data
          /\ result' = r.res
          /\ gm81' = r.locals
    /\ pc' = "twice"
    /\ trace' = Append(trace, "decrypt_gm81")
    /\ UNCHANGED <<orig, logger, build, unpacked, params, upx, prior, gml>>

NextGm81 == Gm81Decrypt \/ Gm81Again

SpecGm81 == InitGm81 /\ [][NextGm81]_vars

-----------------------------------------------------------------------------
(* Claims about decrypt_gm81 (SpecGm81).                                   *)

Gm81Ran == pc = "done" /\ trace = <<"decrypt_gm81">> /\ result = "ok"

\* (seed & 0xFFFF) * k + (seed >> 16) mod 2^32, by 8-bit limbs
RefSeedStep(seed, k) ==
    LET a0 == seed.lo % 256
        a1 == seed.lo \div 256
        k0 == k % 256
        k1 == k \div 256
        mid == a0 * k1 + a1 * k0
        low == a0 * k0 + (mid % 256) * 256 + seed.hi
    IN U((a1 * k1 + (mid \div 256) + (low \div 65536)) % 65536, low % 65536)

RECURSIVE RefSeed(_, _, _)
RefSeed(seed, k, n) == IF n = 0 THEN seed ELSE RefSeedStep(RefSeed(seed, k, n - 1), k)

\* where the encrypted region starts, and the complete words it holds
Gm81Start == ToInt(orig.pos) + 8 + (gm81.seed2.lo % 256) + 10

Gm81Words == IF exe.len >= Gm81Start THEN (exe.len - Gm81Start) \div 4 ELSE 0

\* the byte the reference keystream leaves at offset i
RefGm81Byte(i) ==
    LET j == (i - Gm81Start) \div 4
        at == Gm81Start + 4 * j
        w == from_le_bytes(BytesAt(orig.mem, at, 4))
        s1 == RefSeed(gm81.seed1, 36969, j + 1)
        s2 == RefSeed(gm81.seed2, 18000, j + 1)
        new == BitXor(w, U(s1.lo, s2.lo))
    IN IF i < Gm81Start \/ j >= Gm81Words THEN ByteAt(orig.mem, i)
       ELSE to_le_bytes(new)[i - at + 1]

\* C9: with seed2 the CRC-32 of the hash key, the encrypted region starts
\* (seed2 & 0xFF) + 10 bytes after the two reads; word j of the region
\* (j = 0, 1, ...: every complete 4-byte word up to the end of the buffer) is
\* XORed with (seed1 << 16) + (seed2 & 0xFFFF) for the seeds evolved j + 1
\* times by seed := (seed & 0xFFFF) * K + (seed >> 16) (K = 0x9069 for seed1,
\* 0x4650 for seed2); every other byte is unchanged.
C9_Gm81Keystream ==
    Gm81Ran =>
        /\ gm81.seed2 = crc_32(utf16(gm81.hash_key))
        /\ \A i \in 0..(exe.len - 1) : ByteAt(exe.mem, i) = RefGm81Byte(i)

C9_Witness ==
    /\ Gm81Ran
    /\ Gm81Words >= 2
    /\ (exe.len - Gm81Start) % 4 # 0
    /\ orig.pos # Zero32
    /\ gm81.seed1 # Zero32
    /\ exe.mem # orig.mem

FirstValue == from_le_bytes(BytesAt(orig.mem, ToInt(orig.pos), 4))

SecondValue == from_le_bytes(BytesAt(orig.mem, ToInt(orig.pos) + 4, 4))

\* C10 (as claimed): seed1 is the first value read (the one at the cursor on
\* entry) and the decimal number in the hash key is the second value read.
C10_Seed1IsFirstValue ==
    Gm81Ran => /\ gm81.seed1 = FirstValue
               /\ gm81.hash_key = hash_key_of(SecondValue)

\* C10 (amended): the decimal number in the hash key "_MJD<n>#RWK" is the
\* first value read (the one at the cursor on entry) and seed1 is the second
\* value read.
C10_Seed1IsSecondValue ==
    Gm81Ran => /\ gm81.seed1 = SecondValue
               /\ gm81.hash_key = hash_key_of(FirstValue)

C10_Witness ==
    /\ Gm81Ran
    /\ FirstValue # SecondValue
    /\ gm81.seed1 = SecondValue
    /\ gm81.hash_key = <<95, 77, 74, 68, 49, 50, 51, 52, 53, 35, 82, 87, 75>>

\* C11: when decrypt_gm81 returns successfully the cursor is exactly 8 bytes
\* past its position on entry (just after the two 32-bit reads), whatever the
\* length of the encrypted region: it is not left at the end of the region or
\* of the buffer.
C11_CursorAfterTwoReads ==
    Gm81Ran => exe.pos = ExactAdd(orig.pos, FromInt(8))

C11_Witness ==
    /\ Gm81Ran
    /\ Gm81Words >= 2
    /\ orig.pos = FromInt(3)
    /\ exe.pos = FromInt(11)
    /\ exe.len > 11 + 8

Gm81RanTwice ==
    pc = "twice" /\ trace = <<"decrypt_gm81", "decrypt_gm81">> /\ result = "ok"

\* C12: starting each time from the same cursor position, decrypt_gm81
\* applied twice returns every byte of the buffer to its initial value: the
\* two values that determine the masks lie before the transformed region and
\* are not modified, so the second application undoes the first.
C12_TwiceIsIdentity ==
    /\ Gm81RanTwice => exe.mem = orig.mem
    /\ (pc = "twice") => Gm81RanTwice

\* the first application changed a byte of the region
C12_Witness ==
    /\ Gm81RanTwice
    /\ Gm81Words >= 2
    /\ \E i \in Gm81Start..(exe.len - 1) : RefGm81Byte(i) # ByteAt(orig.mem, i)
    /\ exe.mem = orig.mem

-----------------------------------------------------------------------------
(* SpecCrc: the closure crc_32 applied to short byte strings.              *)

MaxCrcLen == 3

CrcBytes == {0, 1, 97, 255}

CrcInputs == UNION {[1..n -> CrcBytes] : n \in 0..MaxCrcLen}

InitCrc ==
    /\ pc = "crc_32"
    /\ exe = NoBuffer
    /\ orig = exe
    /\ logger = FALSE
    /\ build = "release"
    /\ result = "none"
    /\ trace = <<>>
    /\ unpacked = NoBuffer
    /\ params = NoParams
    /\ \E bytes \in CrcInputs : gm81 = [NoGm81 EXCEPT !.hash_key = bytes]
    /\ upx = NoUpx
    /\ prior = NoPrior
    /\ constants = NoConstants
    /\ calls = <<>>
    /\ lexer = NoLexer
    /\ tokens = <<>>

\* let seed2 = crc_32(&hash_key_utf16, &crc_table) (404)
CrcApply ==
    /\ pc = "crc_32"
    /\ gm81' = [gm81 EXCEPT !.seed2 = crc_32(gm81.hash_key)]
    /\ pc' = "done"
    /\ trace' = Append(trace, "crc_32")
    /\ UNCHANGED <<exe, orig, logger, build, result, unpacked, params, upx, prior, gml>>

NextCrc == CrcApply

SpecCrc == InitCrc /\ [][NextCrc]_vars

\* the standard bit-reflected CRC-32: table entry i is i shifted right 8
\* times, XORing in the reflected polynomial 0xEDB88320 when a one is shifted
\* out
RECURSIVE RefCrcEntry(_, _)
RefCrcEntry(t, n) ==
    IF n = 0 THEN t
    ELSE RefCrcEntry(IF t.lo % 2 = 1 THEN BitXor(Shr1(t), U(60856, 33568)) ELSE Shr1(t),
                     n - 1)

\* the accumulator of the standard construction after the bytes, from acc
RECURSIVE RefCrcAcc(_, _)
RefCrcAcc(acc, bytes) ==
    IF bytes = <<>> THEN acc
    ELSE RefCrcAcc(BitXor(Shr8(acc),
                          RefCrcEntry(U(0, XorByte[acc.lo % 256][Head(bytes)]), 8)),
                   Tail(bytes))

AllOnes32 == U(65535, 65535)

CrcRan == pc = "done" /\ trace = <<"crc_32">>

\* C13 (as claimed): the table is the standard reflected CRC-32 table for
\* polynomial 0x04C11DB7, the accumulator starts at 0xFFFFFFFF, and the result
\* is the accumulator with the standard final XOR 0xFFFFFFFF applied, so that
\* the empty input gives 0.
C13_StandardCrc32 ==
    /\ \A i \in 0..255 : crc_table[i] = RefCrcEntry(U(0, i), 8)
    /\ CrcRan => gm81.seed2 = BitXor(RefCrcAcc(AllOnes32, gm81.hash_key), AllOnes32)
    /\ (CrcRan /\ gm81.hash_key = <<>>) => gm81.seed2 = Zero32

\* C13 (amended): the table is the standard reflected CRC-32 table for
\* polynomial 0x04C11DB7 and the accumulator starts at 0xFFFFFFFF, but no
\* final XOR is applied: the result is the accumulator itself, 0xFFFFFFFF
\* for the empty input and the complement of the standard CRC-32 otherwise.
C13_Crc32WithoutFinalXor ==
    /\ \A i \in 0..255 : crc_table[i] = RefCrcEntry(U(0, i), 8)
    /\ CrcRan => gm81.seed2 = RefCrcAcc(AllOnes32, gm81.hash_key)
    /\ (CrcRan /\ gm81.hash_key = <<>>) => gm81.seed2 = AllOnes32

\* CRC-32("a") is 0xE8B7BE43; the closure returns its complement 0x174841BC
C13_Witness ==
    /\ CrcRan
    /\ gm81.hash_key = <<97>>
    /\ gm81.seed2 = U(5960, 16828)
    /\ crc_table[1] = U(30471, 12438)    \* 0x77073096

-----------------------------------------------------------------------------
(* find_gamedata, reader.rs 56-151.                                        *)

Upx0 == <<85, 80, 88, 48>>

Upx1 == <<85, 80, 88, 49>>

UpxMagic == <<85, 80, 88, 33>>    \* "UPX!"

RECURSIVE mutant_upx_version(_, _)
mutant_upx_version(cur, lg) ==
    LET ch == read_u8(cur)
    IN IF ~ ch.ok THEN [ok |-> lg, cur |-> cur]
       ELSE IF ch.val = 0 THEN [ok |-> TRUE, cur |-> IF lg THEN cur ELSE ch.cur]
       ELSE mutant_upx_version(ch.cur, lg)

\* the null-terminated version string (74-86): with a logger the loop also
\* ends, without error, where the image ends
RECURSIVE upx_version(_, _)
upx_version(cur, lg) ==
    LET ch == read_u8(cur)
    IN IF ~ ch.ok THEN [ok |-> lg, cur |-> cur]
       ELSE IF ch.val = 0 THEN [ok |-> TRUE, cur |-> ch.cur]
       ELSE upx_version(ch.cur, lg)

\* 60-90 and 118-122: res is "unpack" (every header confirmed), "probe" (go
\* on at line 124), "IO" or "PartialUPXPacking"
upx_headers(image, lg) ==
    LET h0 == read_u32_le(set_position(image, FromInt(368)))          \* 0x170
        h1 == read_u32_le(seek_current(h0.cur, 36))
        ver == upx_version(seek_current(h1.cur, 76), lg)
        magic == read_u32_le(ver.cur)
    IN IF ~ h0.ok THEN ProbeResult("IO", h0.cur)
       ELSE IF to_le_bytes(h0.val) # Upx0 THEN ProbeResult("probe", h0.cur)
       ELSE IF ~ h1.ok THEN ProbeResult("IO", h1.cur)
       ELSE IF to_le_bytes(h1.val) # Upx1 THEN ProbeResult("probe", h1.cur)
       ELSE IF ~ ver.ok THEN ProbeResult("IO", ver.cur)
       ELSE IF ~ magic.ok THEN ProbeResult("IO", magic.cur)
       ELSE IF to_le_bytes(magic.val) # UpxMagic
       THEN ProbeResult("PartialUPXPacking", magic.cur)
       ELSE ProbeResult("unpack", seek_current(magic.cur, 28))

mutant_upx_probed(image, buf) == image

\* the buffer probed at 98
upx_probed(image, buf) == buf

\* the buffer transformed at 110
upx_decrypted(image, buf) == image

\* 110-114 and 136-140: the transform, then 12 bytes are skipped
antidec_path(data, p, bld) ==
    LET r == decrypt_antidec(data, p, bld)
    IN IF r.panic THEN [res |-> "panic", cur |-> r.data]
       ELSE [res |-> "GameMaker8_0", cur |-> seek_current(r.data, 12)]

CheckUpx ==
    /\ pc = "find_gamedata"
    /\ LET r == upx_headers(exe, logger)
       IN /\ exe' = r.cur
          /\ pc' = IF r.res = "unpack" THEN "unpack_upx"
                   ELSE IF r.res = "probe" THEN "check_antidec"
                   ELSE "done"
          /\ result' = IF r.res \in {"IO", "PartialUPXPacking"} THEN r.res ELSE result
    /\ trace' = Append(trace, "check_upx")
    /\ UNCHANGED <<orig, logger, build, unpacked, params, gm81, upx, prior, gml>>

\* the decoder's state becomes the call's outcome (92-94): it runs on, it
\* returns the buffer, or it fails
UnpackDone(s) ==
    /\ upx' = s
    /\ exe' = s.data
    /\ IF s.st = "run"
       THEN /\ pc' = "unpack_loop"
            /\ UNCHANGED <<result, unpacked>>
       ELSE IF s.st = "done"
       THEN /\ pc' = "check_unpacked"
            /\ unpacked' = Cursor(s.len, s.out, Zero32)
            /\ UNCHANGED result
       ELSE /\ pc' = "done"
            /\ result' = s.st
            /\ UNCHANGED unpacked

UnpackStart ==
    /\ pc = "unpack_upx"
    /\ UnpackDone(upx_start(exe))
    /\ trace' = Append(trace, "unpack_upx")
    /\ UNCHANGED <<orig, logger, build, params, gm81, prior, gml>>

UnpackStep ==
    /\ pc = "unpack_loop"
    /\ UnpackDone(upx_iteration(upx, build))
    /\ UNCHANGED <<orig, logger, build, trace, params, gm81, prior, gml>>

UpxAntidec ==
    /\ pc = "check_unpacked"
    /\ LET c == check_antidec(upx_probed(exe, unpacked))
           r == antidec_path(upx_decrypted(exe, c.cur), c.p, build)
       IN IF c.res = "some"
          THEN /\ params' = c.p
               /\ unpacked' = c.cur
               /\ exe' = r.cur
               /\ result' = r.res
          ELSE /\ unpacked' = c.cur
               /\ result' = "UnknownFormat"
               /\ UNCHANGED <<exe, params>>
    /\ pc' = "done"
    /\ trace' = Append(trace, "check_antidec_unpacked")
    /\ UNCHANGED <<orig, logger, build, gm81, upx, prior, gml>>

BareAntidec ==
    /\ pc = "check_antidec"
    /\ LET c == check_antidec(exe)
           r == antidec_path(c.cur, c.p, build)
       IN IF c.res = "some"
          THEN /\ params' = c.p
               /\ exe' = r.cur
               /\ result' = r.res
               /\ pc' = "done"
          ELSE /\ exe' = c.cur
               /\ pc' = "check_gm80"
               /\ UNCHANGED <<params, result>>
    /\ trace' = Append(trace, "check_antidec")
    /\ UNCHANGED <<orig, logger, build, unpacked, gm81, upx, prior, gml>>

CheckGm80 ==
    /\ pc = "check_gm80"
    /\ LET r == check_gm80(exe)
       IN /\ exe' = r.cur
          /\ pc' = IF r.res = "false" THEN "check_gm81" ELSE "done"
          /\ result' = IF r.res = "true" THEN "GameMaker8_0"
                       ELSE IF r.res = "IO" THEN "IO" ELSE result
    /\ trace' = Append(trace, "check_gm80")
    /\ UNCHANGED <<orig, logger, build, unpacked, params, gm81, upx, prior, gml>>

CheckGm81 ==
    /\ pc = "check_gm81"
    /\ LET r == check_gm81(exe, build)
       IN /\ exe' = r.cur
          /\ gm81' = r.locals
          /\ result' = IF r.res = "true" THEN "GameMaker8_1"
                       ELSE IF r.res = "false" THEN "UnknownFormat" ELSE r.res
    /\ pc' = "done"
    /\ trace' = Append(trace, "check_gm81")
    /\ UNCHANGED <<orig, logger, build, unpacked, params, upx, prior, gml>>

-----------------------------------------------------------------------------
(* Spec: find_gamedata on images that exercise every path.                 *)

ImageTail == 40

RECURSIVE PutParts(_, _)
PutParts(mem, parts) ==
    IF parts = <<>> THEN mem
    ELSE PutParts(PutBytes(mem, Head(parts)[1], Head(parts)[2]), Tail(parts))

\* compressed streams: a match to 0x322A9, four literals (the masked
\* exe_load_offset), a match to 0x32336, nine literals (the mask byte 0x5A and
\* the loading sequence), the end marker
StreamNear ==
    <<16, 81, 5, 36, 35, 128, 224, 71, 113, 88, 90, 90, 255, 73, 146, 132, 255,
      90, 226, 247, 199, 5, 46, 47, 67, 0, 0, 0, 149, 36, 255>>

\* the same with exe_load_offset = 0x144ABB
StreamFar == [StreamNear EXCEPT ![9] = 225, ![10] = 16, ![11] = 78]

\* the same with a first sequence byte that differs
StreamOther == [StreamNear EXCEPT ![19] = 227]

\* the same, cut short
StreamCut == SubSeq(StreamNear, 1, 29)

Streams == {StreamNear, StreamFar, StreamOther, StreamCut}

EntryPoints == {1329860, 205632, 768}

UpxImage(magic, entry_point, stream) ==
    [len |-> 533 + Len(stream),
     mem |-> PutParts(NoMem,
                <<<<60, <<128>>>>, <<168, to_le_bytes(FromInt(entry_point))>>,
                  <<368, Upx0>>, <<408, Upx1>>, <<488, <<51, 46, 48, 51, 0>>>>,
                  <<493, magic>>, <<533, stream>>>>),
     pos |-> Zero32]

BigLen(m) == (IF m = "none" THEN GM80_HEADER_START_POS + 4 ELSE 2256266 + 20) + ImageTail

AntidecParts(a, len) ==
    IF a = "none" THEN <<>>
    ELSE <<<<205622, <<90>> \o AntidecSequence>>,
           <<205481, to_le_bytes(BitXor(FromInt(IF a = "far" THEN len + 1 ELSE len - 9),
                                        Broadcast(90)))>>,
           <<205523, to_le_bytes(U(4660, 22136))>>,
           <<205540, <<1, 0, 0, 0>>>>>>

Gm80Magic == <<145, 213, 18, 0>>

Gm80Version == <<32, 3, 0, 0>>

Gm80Parts(g) ==
    IF g = "none" THEN <<>>
    ELSE IF g = "unknown" THEN <<<<674238, Gm80Sequence>>>>
    ELSE IF g = "nop"
    THEN <<<<674238, Gm80Sequence \o <<144>>>>, <<674274, Gm80VersionSequence \o <<144>>>>,
           <<1329864, <<9, 9, 9, 9>>>>>>
    ELSE IF g = "half"
    THEN <<<<674238, Gm80Sequence \o <<61>> \o Gm80Magic \o <<144, 144, 144, 144, 144, 144>>>>,
           <<674274, Gm80VersionSequence \o <<61>> \o Gm80Version \o Gm80VersionJnz>>,
           <<1329864, <<9, 9, 9, 9>> \o Gm80Version>>>>
    ELSE <<<<674238, Gm80Sequence \o <<61>> \o Gm80Magic \o Gm80MagicJnz>>,
           <<674274, Gm80VersionSequence \o <<61>> \o Gm80Version \o Gm80VersionJnz>>>>
         \o (IF g = "ok" THEN <<<<1329864, Gm80Magic \o Gm80Version>>>> ELSE <<>>)

HeaderStartParts(h) ==
    <<<<GM80_HEADER_START_POS,
        IF h = "near" THEN to_le_bytes(FromInt(1329864)) ELSE <<255, 255, 255, 255>>>>>>

\* the GM8.1 header search starts at 0x226D8E; the key value 193 makes
\* decrypt_gm81 skip 10 bytes
Gm81Parts(m) ==
    IF m = "none" THEN <<>>
    ELSE <<<<2256115, Gm81Sequence \o to_le_bytes(FromInt(2256270))>>>>
         \o (IF m = "patched" THEN <<<<2256278, <<193, 0, 0, 0, 7, 0, 1, 0>>>>>>
             ELSE <<<<2256252, Gm81Cmp \o <<103, 0, 20, 247, 116>>>>>>)
         \o (IF m = "ok"
             THEN <<<<2256271, <<0, 0, 0, 247, 103, 0, 20, 0, 193, 0, 0, 0, 7, 0, 1, 0>>>>>>
             ELSE <<>>)

\* an image that ends inside the version string, one of 10 bytes, images
\* that end before or after the "UPX1" marker, with and without "UPX0", and
\* one a byte too short for the probes that carries their sequences
ShortImages ==
    {[len |-> 492,
      mem |-> PutParts(NoMem, <<<<368, Upx0>>, <<408, Upx1>>, <<488, <<51, 46, 48, 51>>>>>>),
      pos |-> Zero32],
     Cursor(10, Pattern(3, 10), Zero32),
     Cursor(400, Pattern(3, 400), Zero32),
     Cursor(400, PutParts(Pattern(3, 400), <<<<368, Upx0>>>>), Zero32),
     Cursor(420, PutParts(Pattern(3, 420), <<<<368, Upx0>>>>), Zero32),
     Cursor(GM80_HEADER_START_POS + 3,
            PutParts(NoMem, AntidecParts("ok", GM80_HEADER_START_POS + 3)
                            \o Gm80Parts("unknown")),
            Zero32)}

BigImage(a, g, h, m, u) ==
    LET len == BigLen(m)
    IN [len |-> len,
        mem |-> PutParts(NoMem,
                   <<<<len - 12, <<1, 2, 3, 4, 5, 6, 7, 8, 9, 10, 11, 12>>>>>>
                   \o (IF u = "upx0" THEN <<<<368, Upx0>>>> ELSE <<>>)
                   \o AntidecParts(a, len) \o Gm80Parts(g) \o HeaderStartParts(h)
                   \o Gm81Parts(m)),
        pos |-> Zero32]

Images ==
    {UpxImage(magic, e, s) : magic \in {UpxMagic, Upx1}, e \in EntryPoints, s \in Streams}
    \cup ShortImages
    \cup {BigImage(a, g, h, m, u) :
             a \in {"none", "ok", "far"},
             g \in {"none", "ok", "bad", "nop", "half", "unknown"},
             h \in {"near", "huge"},
             m \in {"none", "ok", "patched", "notfound"},
             u \in {"none", "upx0"}}

Init ==
    /\ pc = "find_gamedata"
    /\ exe \in Images
    /\ orig = exe
    /\ logger \in BOOLEAN
    /\ build \in {"debug", "release"}
    /\ result = "none"
    /\ trace = <<>>
    /\ unpacked = NoBuffer
    /\ params = NoParams
    /\ gm81 = NoGm81
    /\ upx = NoUpx
    /\ prior = NoPrior
    /\ constants = NoConstants
    /\ calls = <<>>
    /\ lexer = NoLexer
    /\ tokens = <<>>

Next ==
    \/ CheckUpx
    \/ UnpackStart
    \/ UnpackStep
    \/ UpxAntidec
    \/ BareAntidec
    \/ CheckGm80
    \/ CheckGm81

Spec == Init /\ [][Next]_vars

-----------------------------------------------------------------------------
(* SpecLogger: find_gamedata called on the same image twice, once with a   *)
(* logger and once with None, in either order.                             *)

\* the caller keeps the first call's outcome and calls again on a fresh copy
\* of the image, with the other choice of logger
CallAgain ==
    /\ pc = "done"
    /\ prior = NoPrior
    /\ prior' = [result |-> result, exe |-> exe]
    /\ pc' = "find_gamedata"
    /\ exe' = orig
    /\ logger' = ~ logger
    /\ result' = "none"
    /\ trace' = <<>>
    /\ unpacked' = NoBuffer
    /\ params' = NoParams
    /\ gm81' = NoGm81
    /\ upx' = NoUpx
    /\ UNCHANGED <<orig, build, gml>>

NextLogger ==
    \/ CheckUpx
    \/ UnpackStart
    \/ UnpackStep
    \/ UpxAntidec
    \/ BareAntidec
    \/ CheckGm80
    \/ CheckGm81
    \/ CallAgain

SpecLogger == Init /\ [][NextLogger]_vars

-----------------------------------------------------------------------------
(* SpecUnpack: unpack_upx on its own, on a compressed stream cut at every  *)
(* length and on every short stream over a few bytes.                      *)

MaxStreamLen == 5

StreamBytes == {0, 85, 255}

\* four literals ("ABCD"), the end marker
StreamLiterals == <<36, 73, 146, 240, 65, 66, 67, 68, 0, 0, 160, 146, 255>>

\* eight literals ("ABCDEFGH"), a match of 5 bytes at distance 8, the end
\* marker
StreamOvercopy ==
    <<36, 73, 120, 255, 65, 66, 67, 68, 69, 70, 71, 72, 15, 0, 80, 73, 146, 255>>

UnpackStreams ==
    {SubSeq(StreamNear, 1, k) : k \in 0..Len(StreamNear)}
    \cup {StreamLiterals, StreamOvercopy}
    \cup UNION {[1..n -> StreamBytes] : n \in 0..MaxStreamLen}

\* the expected output sizes: one that holds every copy, two that do not
UnpackSizes == {1329860, 2048, 768}

\* the PE header offset at 0x3C, the entry point 40 bytes into the header
\* and the stream 361 bytes after the entry point
UnpackImage(entry_point, stream) ==
    [len |-> 533 + Len(stream),
     mem |-> PutParts(NoMem,
                <<<<60, <<128>>>>, <<168, to_le_bytes(FromInt(entry_point))>>,
                  <<533, stream>>>>),
     pos |-> Zero32]

\* images that end before the PE header offset or inside the entry point
CutHeaders ==
    {Cursor(60, NoMem, Zero32),
     Cursor(170, PutParts(NoMem, <<<<60, <<128>>>>, <<168, <<0, 8>>>>>>), Zero32)}

InitUnpack ==
    /\ pc = "unpack_upx"
    /\ exe \in {UnpackImage(e, s) : e \in UnpackSizes, s \in UnpackStreams} \cup CutHeaders
    /\ orig = exe
    /\ logger = FALSE
    /\ build \in {"debug", "release"}
    /\ result = "none"
    /\ trace = <<>>
    /\ unpacked = NoBuffer
    /\ params = NoParams
    /\ gm81 = NoGm81
    /\ upx = NoUpx
    /\ prior = NoPrior
    /\ constants = NoConstants
    /\ calls = <<>>
    /\ lexer = NoLexer
    /\ tokens = <<>>

NextUnpack == UnpackStart \/ UnpackStep

SpecUnpack == InitUnpack /\ [][NextUnpack]_vars

-----------------------------------------------------------------------------
(* SpecCopy: the match copy of unpack_upx (679-718) on its own, entered    *)
(* after a run of literals with a distance and a length code.              *)

MaxRun == 8

MaxCode == 4

\* the decoder after k literals, about to copy at distance d with length
\* code c (u_var12 is the distance negated)
CopyState(n, k, d, c) ==
    [NoUpx EXCEPT !.len = n,
                  !.out = PutBytes(NoMem, 1024, [i \in 1..k |-> 64 + i]),
                  !.pu_var14 = FromInt(1024 + k),
                  !.u_var12 = wrapping_sub(Zero32, FromInt(d)),
                  !.i_var5 = FromInt(c),
                  !.st = "run"]

\* an output with room to spare, and one that ends where the longest match
\* after the longest run ends
CopySizes == {2048, 1024 + MaxRun + MaxCode + 2}

InitCopy ==
    /\ pc = "copy"
    /\ \E n \in CopySizes, k \in 4..MaxRun, d \in 1..(MaxRun + 2), c \in 0..MaxCode :
          upx = CopyState(n, k, d, c)
    /\ exe = NoBuffer
    /\ orig = exe
    /\ logger = FALSE
    /\ build = "release"
    /\ result = "none"
    /\ trace = <<>>
    /\ unpacked = NoBuffer
    /\ params = NoParams
    /\ gm81 = NoGm81
    /\ prior = NoPrior
    /\ constants = NoConstants
    /\ calls = <<>>
    /\ lexer = NoLexer
    /\ tokens = <<>>

CopyApply ==
    /\ pc = "copy"
    /\ upx' = upx_copy(upx)
    /\ pc' = "done"
    /\ trace' = Append(trace, "copy")
    /\ UNCHANGED <<exe, orig, logger, build, result, unpacked, params, gm81, prior, gml>>

NextCopy == CopyApply

SpecCopy == InitCopy /\ [][NextCopy]_vars

-----------------------------------------------------------------------------
(* SpecCompiler: register_constant called on a new Compiler, compiler.rs   *)
(* 47-52.                                                                  *)

MaxCalls == 4

ConstantNames == {"c_red", "spr_player", "obj_wall"}

ConstantValues == {0, 1, 255}

\* Value::Real(value)
Real(value) == [tag |-> "Real", val |-> value]

mutant_register_constant(table, name, value) ==
    Table([n \in DOMAIN table \cup {name} |-> IF n = name THEN Real(value) ELSE table[n]])

\* self.constants.entry(name).or_insert(Value::Real(value)): an entry that
\* exists is left as it is
register_constant(table, name, value) ==
    IF name \in DOMAIN table THEN table
    ELSE Table([n \in DOMAIN table \cup {name} |-> IF n = name THEN Real(value) ELSE table[n]])

InitCompiler ==
    /\ pc = "compiler"
    /\ exe = NoBuffer
    /\ orig = exe
    /\ logger = FALSE
    /\ build = "release"
    /\ result = "none"
    /\ trace = <<>>
    /\ unpacked = NoBuffer
    /\ params = NoParams
    /\ gm81 = NoGm81
    /\ upx = NoUpx
    /\ prior = NoPrior
    /\ constants = NoConstants
    /\ calls = <<>>
    /\ lexer = NoLexer
    /\ tokens = <<>>

RegisterConstant ==
    /\ pc = "compiler"
    /\ Len(calls) < MaxCalls
    /\ \E name \in ConstantNames, value \in ConstantValues :
          /\ constants' = register_constant(constants, name, value)
          /\ calls' = Append(calls, <<name, value>>)
    /\ UNCHANGED <<pc, exe, orig, logger, build, result, trace, unpacked, params, gm81,
                   upx, prior, lexer, tokens>>

NextCompiler == RegisterConstant

SpecCompiler == InitCompiler /\ [][NextCompiler]_vars


-----------------------------------------------------------------------------
(* Claims about find_gamedata (Spec).                                      *)

Finished == pc = "done"

Dword(b, at) == from_le_bytes(BytesAt(b.mem, at, 4))

\* "UPX0" at 0x170
HasUpx0(b) == b.len >= 372 /\ BytesAt(b.mem, 368, 4) = Upx0

\* the antidec2 loading sequence at 0x32337 of a buffer long enough to probe
HasAntidecSequence(b) ==
    b.len >= GM80_HEADER_START_POS + 4 /\ BytesAt(b.mem, 205623, 8) = AntidecSequence

\* the probes run after the UPX check, in order
Probes == SubSeq(trace, 2, Len(trace))

ProbeOrder == <<"check_antidec", "check_gm80", "check_gm81">>

\* C1: for an image without "UPX0" at 0x170 the probes run in the order
\* antidec2, standard GM8.0, standard GM8.1, each only after the ones before
\* it reported no match; an image that carries the antidec2 sequence yields
\* GameMaker8_0 from the antidec2 probe alone; GameMaker8_1 and UnknownFormat
\* are returned only after all three probes ran.
C1_ProbeOrderFirstMatchWins ==
    (Finished /\ ~ HasUpx0(orig)) =>
        /\ \E n \in 0..3 : Probes = SubSeq(ProbeOrder, 1, n)
        /\ orig.len >= 372 => Len(Probes) >= 1
        /\ HasAntidecSequence(orig) =>
              Probes = <<"check_antidec">> /\ result = "GameMaker8_0"
        /\ (result = "GameMaker8_0" /\ ~ HasAntidecSequence(orig)) =>
              Probes = <<"check_antidec", "check_gm80">>
        /\ result \in {"GameMaker8_1", "UnknownFormat"} =>
              Probes = ProbeOrder /\ ~ HasAntidecSequence(orig)

\* the call took the UPX path and unpack_upx returned a buffer
UpxPathRan ==
    Finished /\ trace = <<"check_upx", "unpack_upx", "check_antidec_unpacked">>

\* the buffer unpack_upx returned
Decompressed == Cursor(upx.len, upx.out, Zero32)

\* C2: once the UPX headers are confirmed and the image is decompressed, no
\* bare-antidec2 or standard probe runs, and the result is GameMaker8_0 if
\* the decompressed buffer carries the antidec2 sequence and an error
\* otherwise.
C2_UpxPathDecidesAlone ==
    (Finished /\ Len(trace) >= 2 /\ trace[2] = "unpack_upx" /\ upx.st = "done") =>
        /\ UpxPathRan
        /\ IF HasAntidecSequence(Decompressed) THEN result = "GameMaker8_0"
           ELSE result \in {"UnknownFormat", "IO", "PartialUPXPacking"}

\* a required sub-header differs: the "UPX1" marker at 0x198, or the "UPX!"
\* magic after the version string "3.03" at 0x1E8
SubHeaderMismatch(b) ==
    \/ b.len >= 412 /\ BytesAt(b.mem, 408, 4) # Upx1
    \/ /\ b.len >= 497
       /\ BytesAt(b.mem, 408, 4) = Upx1
       /\ BytesAt(b.mem, 488, 5) = <<51, 46, 48, 51, 0>>
       /\ BytesAt(b.mem, 493, 4) # UpxMagic

\* C3: when "UPX0" is at 0x170 and a required sub-header differs, the result
\* is PartialUPXPacking and no other probe runs.
C3_PartialOnSubHeaderMismatch ==
    (Finished /\ HasUpx0(orig) /\ SubHeaderMismatch(orig)) =>
        result = "PartialUPXPacking" /\ trace = <<"check_upx">>

\* four parameters masked with the byte before the sequence, header_start
\* as read
RefParams(b) ==
    LET m == Broadcast(ByteAt(b.mem, 205622))
    IN Params(BitXor(Dword(b, 205481), m), Dword(b, GM80_HEADER_START_POS),
              BitXor(Dword(b, 205523), m), BitXor(Dword(b, 205528), m),
              BitXor(Dword(b, 205540), m))

\* all five parameters masked
AllMaskedParams(b) ==
    [RefParams(b) EXCEPT !.header_start =
        BitXor(Dword(b, GM80_HEADER_START_POS), Broadcast(ByteAt(b.mem, 205622)))]

\* C4 (as claimed): on the UPX path the transform works on the decompressed
\* buffer: the original image keeps its bytes, the last word of the
\* decompressed buffer (the first one transformed) is replaced, and the
\* decompressed buffer's cursor is set from exe_load_offset and header_start.
C4_DecompressedTransformed ==
    (UpxPathRan /\ result = "GameMaker8_0") =>
        LET p == RefParams(Decompressed)
        IN /\ exe.mem = orig.mem
           /\ Dword(unpacked, upx.len - 4) =
                 swap_bytes(wrapping_add(BitXor(Dword(Decompressed, upx.len - 4), p.xor_mask),
                                         p.add_mask))
           /\ unpacked.pos = Wrap32(antidec_position(p.exe_load_offset, p.header_start))

\* C4 (amended): on the UPX path the antidec2 sequence is looked for in, and
\* the parameters are read from, the decompressed buffer, and the transform
\* is applied to the original image: GameMaker8_0 is returned exactly when the
\* decompressed buffer carries the sequence and the transform does not abort,
\* and then the original image holds the reference transform of its region
\* from exe_load_offset and its cursor is 12 bytes past the position the
\* transform sets; the bytes of the decompressed buffer never change.
C4_OriginalImageTransformed ==
    UpxPathRan =>
        LET p == RefParams(Decompressed)
            sum == antidec_position(p.exe_load_offset, p.header_start)
            aborts == \/ ~ LeqInt(p.exe_load_offset, orig.len)
                      \/ build = "debug" /\ Overflows32(sum)
        IN /\ unpacked.mem = upx.out
           /\ HasAntidecSequence(Decompressed) => params = p
           /\ result = "GameMaker8_0" <=> (HasAntidecSequence(Decompressed) /\ ~ aborts)
           /\ result = "GameMaker8_0" =>
                 /\ \A i \in 0..(orig.len - 1) :
                       ByteAt(exe.mem, i) = RefAntidecByte(orig, p, i)
                 /\ exe.pos = ExactAdd(Wrap32(sum), FromInt(12))

C4_Witness ==
    /\ UpxPathRan
    /\ result = "GameMaker8_0"
    /\ exe.mem # orig.mem
    /\ unpacked.mem = upx.out

\* the antidec2 probe matched, on the buffer src
AntidecFound(src) == Finished /\ HasAntidecSequence(src) /\ params # NoParams

\* the buffer the antidec2 probe read: the decompressed buffer on the UPX
\* path, the image as handed in otherwise
ProbedBuffer == IF UpxPathRan THEN Decompressed ELSE orig

\* C7 (as claimed): each of the five parameters is a dword of the probed
\* buffer XORed with the byte before the sequence, broadcast to four bytes.
C7_AllFiveMasked ==
    AntidecFound(ProbedBuffer) => params = AllMaskedParams(ProbedBuffer)

\* C7 (amended): exe_load_offset, xor_mask, add_mask and sub_mask are dwords
\* of the probed buffer (at 0x322A9, 0x322D3, 0x322D8, 0x322E4) XORed with
\* the byte before the sequence, broadcast to four bytes; header_start is the
\* dword at GM80_HEADER_START_POS as read, not masked.
C7_FourMaskedHeaderStartRaw ==
    /\ AntidecFound(ProbedBuffer) => params = RefParams(ProbedBuffer)
    /\ (Finished /\ HasAntidecSequence(ProbedBuffer)
           /\ (UpxPathRan \/ (Len(trace) >= 2 /\ trace[2] = "check_antidec")))
          => params = RefParams(ProbedBuffer)

C7_Witness ==
    /\ AntidecFound(orig)
    /\ trace = <<"check_upx", "check_antidec">>
    /\ ByteAt(orig.mem, 205622) # 0
    /\ params.header_start = Dword(orig, GM80_HEADER_START_POS)
    /\ params.header_start # AllMaskedParams(orig).header_start
    /\ params.exe_load_offset # Dword(orig, 205481)

\* check_gm80 was the last probe to run
Gm80Ran == Len(trace) = 3 /\ trace[3] = "check_gm80"

\* the GM8.0 loading sequence at 0xA49BE of a buffer long enough to probe
HasGm80Sequence(b) ==
    b.len >= GM80_HEADER_START_POS + 4 /\ BytesAt(b.mem, 674238, 8) = Gm80Sequence

\* the guard whose instruction byte is at op: intact (CMP and the JNZ bytes)
\* or replaced by the marker 0x90
GuardIntact(b, op, jnz) == ByteAt(b.mem, op) = 61 /\ BytesAt(b.mem, op + 5, 6) = jnz

GuardNop(b, op) == ByteAt(b.mem, op) = 144

VersionGuardIntact(b) ==
    BytesAt(b.mem, 674274, 7) = Gm80VersionSequence
        /\ GuardIntact(b, 674281, Gm80VersionJnz)

\* the dword at cursor position p of b is there and equal to v
DwordIs(b, p, v) ==
    LeqInt(ExactAdd(p, FromInt(4)), b.len) /\ Dword(b, ToInt(p)) = v

\* C14: for a buffer that carries the GM8.0 loading sequence, a guard value
\* is compared with its header dword only when that guard is intact (CMP
\* 0x3D followed by the expected JNZ bytes): GameMaker8_0 is returned only if
\* every intact guard's value equals its header dword; when both guards are
\* the marker 0x90 and the header start lies inside the buffer the probe
\* matches whatever the header holds; on every match the cursor ends 16 bytes
\* after the header start.
C14_GuardTolerance ==
    (Gm80Ran /\ HasGm80Sequence(orig)) =>
        LET header_start == Dword(orig, GM80_HEADER_START_POS)
        IN /\ (GuardNop(orig, 674246) /\ GuardNop(orig, 674281)
                  /\ BytesAt(orig.mem, 674274, 7) = Gm80VersionSequence
                  /\ LeqInt(header_start, orig.len))
                 => result = "GameMaker8_0"
           /\ result = "GameMaker8_0" =>
                 /\ exe.pos = ExactAdd(header_start, FromInt(16))
                 /\ GuardIntact(orig, 674246, Gm80MagicJnz)
                       => DwordIs(orig, header_start, Dword(orig, 674247))
                 /\ VersionGuardIntact(orig)
                       => DwordIs(orig, ExactAdd(header_start, FromInt(4)),
                                  Dword(orig, 674282))
           /\ (~ GuardIntact(orig, 674246, Gm80MagicJnz)
                  /\ ByteAt(orig.mem, 674246) \in {61, 144}
                  /\ VersionGuardIntact(orig)
                  /\ DwordIs(orig, ExactAdd(header_start, FromInt(4)), Dword(orig, 674282)))
                 => result = "GameMaker8_0"

\* both guards are the marker and the header holds neither the magic nor the
\* version of an intact image
C14_Witness ==
    /\ Gm80Ran /\ HasGm80Sequence(orig)
    /\ GuardNop(orig, 674246) /\ GuardNop(orig, 674281)
    /\ Dword(orig, GM80_HEADER_START_POS) = FromInt(1329864)
    /\ BytesAt(orig.mem, 1329864, 8) = <<9, 9, 9, 9, 0, 0, 0, 0>>
    /\ result = "GameMaker8_0"
    /\ exe.pos = FromInt(1329880)

\* check_gm81 ran, as the last probe
Gm81Probed == Finished /\ Len(trace) = 4 /\ trace[4] = "check_gm81"

\* the GM8.1 loading sequence at 0x226CF3, and the magic check after it
\* (CMP at 0x226D7C, the magic at 0x226D7F, JE at 0x226D83)
HasGm81Magic(b) ==
    /\ b.len >= 2256266
    /\ BytesAt(b.mem, 2256115, 8) = Gm81Sequence
    /\ BytesAt(b.mem, 2256252, 3) = Gm81Cmp
    /\ ByteAt(b.mem, 2256259) = 116

\* (dword at p & 0xFF00FF00) + (dword at p + 4 & 0x00FF00FF) equals the
\* magic, byte by byte
SearchMatch(b, p) ==
    <<ByteAt(b.mem, p + 4), ByteAt(b.mem, p + 1), ByteAt(b.mem, p + 6), ByteAt(b.mem, p + 3)>>
        = BytesAt(b.mem, 2256255, 4)

\* the candidate offsets from hs in steps of step: hs itself, then every
\* offset whose two dwords end before the last byte of the buffer
SearchOffsets(b, hs, step) ==
    {hs} \cup {p \in (hs + 1)..(b.len - 9) : (p - hs) % step = 0}

\* the first candidate that matches, or -1
FirstMatch(b, hs, step) ==
    LET hits == {p \in SearchOffsets(b, hs, step) : SearchMatch(b, p)}
    IN IF hits = {} THEN -1 ELSE CHOOSE p \in hits : \A q \in hits : p <= q

\* the outcome of the search with the given step: GameMaker8_1 is returned
\* only for the first matching candidate p, with the cursor 36 bytes after p
\* (the two dwords, the two values decrypt_gm81 reads, and 20 more), and
\* UnknownFormat exactly when no candidate matches
SearchOutcome(step) ==
    LET hs == ToInt(Dword(orig, 2256123))
        p == FirstMatch(orig, hs, step)
    IN (Gm81Probed /\ HasGm81Magic(orig) /\ hs + 8 <= orig.len) =>
          /\ result = "GameMaker8_1" => (p # -1 /\ exe.pos = FromInt(p + 36))
          /\ result = "UnknownFormat" <=> p = -1

TooShort(b) == b.len < GM80_HEADER_START_POS + 4

\* "UPX1" at 0x198
HasUpx1(b) == b.len >= 412 /\ BytesAt(b.mem, 408, 4) = Upx1

\* the cursor the UPX check leaves on a buffer it does not take for packed
AfterUpxCheck(b) == FromInt(IF HasUpx0(b) THEN 412 ELSE 372)

\* C16 as stated: on every buffer too short for the probes find_gamedata
\* ends with UnknownFormat or an IO failure.
C16_ShortBufferRejected ==
    (Finished /\ TooShort(orig)) => result \in {"UnknownFormat", "IO"}

\* C16: on a buffer too short for the probes that does not carry both UPX
\* markers find_gamedata never panics: it ends with an IO failure when the
\* marker reads run past the end, and otherwise with UnknownFormat after the
\* three probes, in order, each reported no match without moving the cursor
\* or touching the buffer.
C16_ShortUnpackedBufferRejected ==
    (Finished /\ TooShort(orig) /\ ~ (HasUpx0(orig) /\ HasUpx1(orig))) =>
        IF orig.len < 372 \/ (HasUpx0(orig) /\ orig.len < 412)
        THEN result = "IO" /\ trace = <<"check_upx">>
        ELSE /\ result = "UnknownFormat"
             /\ Probes = ProbeOrder
             /\ exe = [orig EXCEPT !.pos = AfterUpxCheck(orig)]
             /\ params = NoParams

\* the probes' sequences are present, and the buffer is one byte too short
C16_Witness ==
    /\ Finished
    /\ orig.len = GM80_HEADER_START_POS + 3
    /\ HasGm80Sequence([orig EXCEPT !.len = GM80_HEADER_START_POS + 4])
    /\ BytesAt(orig.mem, 205623, 8) = AntidecSequence
    /\ result = "UnknownFormat"
    /\ exe.pos = FromInt(372)


\* C17: in every state reached during find_gamedata, and so when it returns,
\* the image cursor lies within the buffer: 0 <= cursor <= len.
C17_CursorWithinBuffer == LeqInt(exe.pos, exe.len)

\* both calls have returned
CalledTwice == pc = "done" /\ prior # NoPrior

Succeeded(r) == r \in {"GameMaker8_0", "GameMaker8_1"}

\* C18: the call with a logger and the call without one return the same
\* result (the same version or the same error kind, or both abort), and when
\* they succeed they leave the same buffer contents and the same cursor.
C18_LoggerNonInterference ==
    CalledTwice =>
        /\ result = prior.result
        /\ Succeeded(result) => exe = prior.exe

\* the image ends inside the UPX version string: the loop with a logger stops
\* at the end of the image without an error, the loop without one fails there
C18_Witness ==
    /\ CalledTwice
    /\ HasUpx0(orig) /\ HasUpx1(orig)
    /\ orig.len = 492
    /\ upx_version(set_position(orig, FromInt(488)), TRUE).ok
    /\ ~ upx_version(set_position(orig, FromInt(488)), FALSE).ok
    /\ result = "IO"

\* C19: unpack_upx never aborts on an access to its output: an input whose
\* literal or match copy falls outside [0, expected size) makes it return an
\* error value, so the call ends with a buffer or with an error.
C19_OutputAccessNeverAborts == upx.st # "panic"

-----------------------------------------------------------------------------
(* Claims about unpack_upx (SpecUnpack).                                   *)

\* unpack_upx has returned a buffer, has returned an error, or has aborted
UnpackReturned == pc = "check_unpacked"

UnpackEnded == pc \in {"check_unpacked", "done"}

\* the byte the decoder read last
LastByteRead(s) == ByteAt(s.data.mem, ToInt(s.data.pos) - 1)

\* ((prefix - 3) << 8) + byte = 0xFFFFFFFF, on 32 bits
SentinelDecoded(prefix, byte) ==
    LET low == wrapping_sub(prefix, U(0, 3))
    IN low.hi % 256 = 255 /\ low.lo = 65535 /\ byte = 255

\* the stream of the image is StreamNear cut short
CutStream(b) ==
    /\ b.len >= 533
    /\ b.len - 533 < Len(StreamNear)
    /\ BytesAt(b.mem, 533, b.len - 533) = SubSeq(StreamNear, 1, b.len - 533)

\* the shifts the bit buffer still allows before it is empty
RECURSIVE BitsLeft(_)
BitsLeft(w) == IF w = Zero32 THEN 0 ELSE 1 + BitsLeft(Shl1(w))

\* the input left to the decoder, in bits, a byte of the stream counting for
\* more than a full bit buffer
InputLeft(s) == 33 * (s.data.len - ToInt(s.data.pos)) + BitsLeft(s.u_var9)

\* C20: unpack_upx ends on every input, because every pass of its loop that
\* does not end the call uses up input, of which there is a finite amount;
\* it returns a buffer only at the step that decodes ((prefix - 3) << 8) +
\* byte = 0xFFFFFFFF, and the buffer is the output it built; when the input
\* runs out anywhere else it returns an IO error and no buffer, as on every
\* proper prefix of a stream that decodes to the end marker.
C20_EndsAtSentinelOrError ==
    /\ [][(pc = "unpack_loop" /\ upx'.st = "run") =>
             (InputLeft(upx') < InputLeft(upx) /\ InputLeft(upx') >= 0)]_vars
    /\ [](UnpackReturned =>
            /\ upx.st = "done"
            /\ Less32(U(0, 2), upx.u_var6)
            /\ SentinelDecoded(upx.u_var6, LastByteRead(upx))
            /\ unpacked = Cursor(upx.len, upx.out, Zero32)
            /\ result = "none")
    /\ [](upx.st = "IO" => pc = "done" /\ result = "IO" /\ unpacked = NoBuffer)
    /\ []((pc = "done" /\ CutStream(orig) /\ Dword(orig, 168) = FromInt(1329860)) =>
            upx.st = "IO")
    /\ [][upx.st \in {"done", "IO", "panic"} => UNCHANGED vars]_vars

\* the whole stream was decoded and the buffer returned at its end marker
C20_Witness ==
    /\ UnpackReturned
    /\ BytesAt(orig.mem, 533, Len(StreamNear)) = StreamNear
    /\ exe.pos = FromInt(orig.len)
    /\ upx.u_var6 = U(256, 2)
    /\ LastByteRead(upx) = 255

-----------------------------------------------------------------------------
(* Claims about the match copy (SpecCopy).                                 *)

\* the copy takes the 4-bytes-at-a-time path
FastPath(s) == Less32(s.u_var12, U(65535, 65533))

\* the match length: the length code plus 2, plus 1 for a distance above
\* 0x500
MatchLength(s) ==
    ToInt(s.i_var5) + 2 + (IF Less32(s.u_var12, U(65535, 64256)) THEN 1 ELSE 0)

\* what a byte-by-byte loop leaves: n bytes go from p8.. to p14.., one at a
\* time
RECURSIVE ByteLoop(_, _, _, _)
ByteLoop(out, p8, p14, n) ==
    IF n = 0 THEN out
    ELSE ByteLoop(PutByte(out, p14, ByteAt(out, p8)), p8 + 1, p14 + 1, n - 1)

\* C21: a match copied 4 bytes at a time leaves the output and the output
\* cursor as the byte-by-byte loop would: the cursor has advanced by the match
\* length and no byte at or beyond it is written.
C21_FastCopyIsByteLoop ==
    [][(pc = "copy" /\ FastPath(upx)) =>
         /\ upx'.st = "run"
         /\ upx'.pu_var14 = FromInt(ToInt(upx.pu_var14) + MatchLength(upx))
         /\ upx'.out = ByteLoop(upx.out,
                                ToInt(wrapping_add(upx.pu_var14, upx.u_var12)),
                                ToInt(upx.pu_var14), MatchLength(upx))]_vars

-----------------------------------------------------------------------------
(* Claims about whole streams (SpecUnpack).                                *)

\* the image holds the stream s, and nothing after it
HoldsStream(b, s) == b.len = 533 + Len(s) /\ BytesAt(b.mem, 533, Len(s)) = s

-----------------------------------------------------------------------------
(* Claims about the compiler (SpecCompiler).                               *)

\* the names registered so far
Registered == {calls[i][1] : i \in 1..Len(calls)}

\* the value passed in the earliest call for the name
EarliestValue(name) ==
    calls[CHOOSE i \in 1..Len(calls) :
              calls[i][1] = name /\ \A j \in 1..(i - 1) : calls[j][1] # name][2]

\* C23: after any sequence of register_constant calls each registered name
\* is bound to the value of the earliest call for it, and a call with a name
\* that is already registered leaves the whole table unchanged.
C23_FirstRegistrationWins ==
    /\ [](/\ DOMAIN constants = Registered
          /\ \A n \in Registered : constants[n] = Real(EarliestValue(n)))
    /\ [][(Len(calls') = Len(calls) + 1 /\ calls'[Len(calls')][1] \in Registered) =>
            constants' = constants]_vars

\* a name was registered again with another value, and keeps the first
C23_Witness ==
    /\ Len(calls) = 3
    /\ calls[1] = <<"c_red", 255>>
    /\ calls[3] = <<"c_red", 0>>
    /\ constants["c_red"] = Real(255)

-----------------------------------------------------------------------------
(* Claims about an exe_load_offset beyond the buffer (Spec).               *)

\* the antidec2 probe matched and extracted an exe_load_offset greater than
\* the length of the buffer it was read from
OffsetBeyondBuffer ==
    /\ AntidecFound(ProbedBuffer)
    /\ ~ LeqInt(params.exe_load_offset, ProbedBuffer.len)

\* C24: when the exe_load_offset extracted from the image is greater than the
\* buffer length, find_gamedata returns an error value; the process does not
\* abort, and no byte of the buffer is modified.
C24_OffsetBeyondBufferIsError ==
    OffsetBeyondBuffer
        => /\ result \in {"IO", "UnknownFormat", "InvalidExeHeader", "PartialUPXPacking"}
           /\ exe.mem = orig.mem

-----------------------------------------------------------------------------
(* Claims about the bytes decrypt_antidec touches (SpecAntidec).           *)

\* decrypt_antidec was applied to the buffer as constructed and had a region
AntidecApplied ==
    /\ pc = "done" /\ trace = <<"decrypt_antidec">>
    /\ LeqInt(params.exe_load_offset, orig.len)

\* the bytes of the region that precede its first whole word from the end
RegionSlack == (orig.len - ToInt(params.exe_load_offset)) % 4

\* the word whose 4 bytes start at offset at is the transform of the word
\* the buffer held there, under the masks of its rank from the end
WordTransformedOnce(at) ==
    LET j == (orig.len - at) \div 4 - 1
        w == from_le_bytes(BytesAt(orig.mem, at, 4))
    IN BytesAt(exe.mem, at, 4) =
          to_le_bytes(swap_bytes(wrapping_add(BitXor(w, RefXorMask(params, j)),
                                              RefAddMask(params, j))))

\* C25: decrypt_antidec changes no byte below exe_load_offset, and the words
\* it transforms are aligned to the end of the buffer: the first
\* (len - exe_load_offset) mod 4 bytes of the region are left unchanged and
\* every later byte lies in exactly one transformed word, the one that ends a
\* multiple of 4 bytes before the end of the buffer.
C25_WordsAlignedToBufferEnd ==
    AntidecApplied
        => LET first == ToInt(params.exe_load_offset) + RegionSlack
           IN /\ exe.len = orig.len
              /\ \A i \in 0..(first - 1) : ByteAt(exe.mem, i) = ByteAt(orig.mem, i)
              /\ \A i \in first..(orig.len - 1) :
                    WordTransformedOnce(orig.len - 4 * ((orig.len - 1 - i) \div 4 + 1))

C25_Witness ==
    /\ AntidecApplied
    /\ RegionSlack = 3
    /\ orig.len - ToInt(params.exe_load_offset) >= 7
    /\ params.exe_load_offset # Zero32
    /\ params.xor_mask # Zero32 /\ params.sub_mask # Zero32
    /\ \A i \in 0..(orig.len - 1) : ByteAt(orig.mem, i) # 0
    /\ \A i \in (ToInt(params.exe_load_offset) + RegionSlack)..(orig.len - 1) :
          ByteAt(exe.mem, i) # ByteAt(orig.mem, i)

-----------------------------------------------------------------------------
(* SpecSeeds: the loop of decrypt_gm81 (reader.rs 417-423), pass by pass,  *)
(* entered with seeds at the ends and in the middle of their range.        *)

MaxWords == 3

SeedHalves == {0, 1, 255, 32768, 65535}

\* seed1 is a dword of the file: any value
SeedVals == {U(h, l) : h \in SeedHalves, l \in SeedHalves}

\* seed2 is the CRC-32 of a hash key
Seed2Vals == {crc_32(utf16(hash_key_of(v))) : v \in KeyVals}

InitSeeds ==
    /\ pc = "gm81_loop"
    /\ \E w \in 0..MaxWords, t \in {0, 3}, s \in PatternSeeds :
          exe = Cursor(4 * w + t, Pattern(s, 4 * w + t), Zero32)
    /\ orig = exe
    /\ logger = FALSE
    /\ build \in {"debug", "release"}
    /\ result = "none"
    /\ trace = <<>>
    /\ unpacked = NoBuffer
    /\ params = NoParams
    /\ \E s1 \in SeedVals, s2 \in Seed2Vals :
          gm81 = [hash_key |-> <<>>, seed1 |-> s1, seed2 |-> s2]
    /\ upx = NoUpx
    /\ prior = NoPrior
    /\ constants = NoConstants
    /\ calls = <<>>
    /\ lexer = NoLexer
    /\ tokens = <<>>

\* one pass of the loop: the read, the two seed updates, the mask, the write
Gm81Word ==
    /\ pc = "gm81_loop"
    /\ LET s == gm81_word([st |-> "loop", data |-> exe, seed1 |-> gm81.seed1,
                           seed2 |-> gm81.seed2], build)
       IN /\ exe' = s.data
          /\ gm81' = [gm81 EXCEPT !.seed1 = s.seed1, !.seed2 = s.seed2]
          /\ pc' = IF s.st = "loop" THEN "gm81_loop" ELSE "done"
          /\ result' = IF s.st = "panic" THEN "panic"
                       ELSE IF s.st = "done" THEN "ok" ELSE result
    /\ trace' = Append(trace, "gm81_word")
    /\ UNCHANGED <<orig, logger, build, unpacked, params, upx, prior, gml>>

NextSeeds == Gm81Word

SpecSeeds == InitSeeds /\ [][NextSeeds]_vars

-----------------------------------------------------------------------------
(* Claims about the seed arithmetic of decrypt_gm81 (SpecSeeds).           *)

\* the word under the cursor can be read
WordLeft == pc = "gm81_loop" /\ ToInt(exe.pos) + 4 <= exe.len

\* ((seed1 << 16) + (seed2 & 0xFFFF)) mod 2^32
RefMask(seed1, seed2) == U(seed1.lo, seed2.lo)

\* C26: for every seed the update (s & 0xFFFF) * K + (s >> 16), K = 0x9069
\* or 0x4650, and the mask (seed1 << 16) + (seed2 & 0xFFFF) are below 2^32 as
\* exact integers: no pass of the loop overflows, in either build, and the
\* seeds and the word written are those of the wrapping arithmetic.
C26_SeedArithmeticNeverOverflows ==
    /\ [](result # "panic")
    /\ [][WordLeft =>
            /\ pc' = "gm81_loop"
            /\ gm81'.seed1 = RefSeedStep(gm81.seed1, 36969)
            /\ gm81'.seed2 = RefSeedStep(gm81.seed2, 18000)
            /\ BytesAt(exe'.mem, ToInt(exe.pos), 4) =
                  to_le_bytes(BitXor(RefMask(gm81'.seed1, gm81'.seed2),
                                     from_le_bytes(BytesAt(exe.mem, ToInt(exe.pos), 4))))
            /\ ~ Overflows32(gm81_seed(gm81.seed1, 36969))
            /\ ~ Overflows32(gm81_seed(gm81.seed2, 18000))
            /\ ~ Overflows32(gm81_mask(gm81'.seed1, gm81'.seed2))]_vars

C26_Witness ==
    /\ pc = "done" /\ result = "ok" /\ build = "debug"
    /\ Len(trace) = MaxWords + 1
    /\ \E s \in SeedVals :
          /\ s.lo = 65535 /\ s.hi = 65535
          /\ gm81.seed1 = RefSeed(s, 36969, MaxWords)
    /\ exe.mem # orig.mem

-----------------------------------------------------------------------------
(* Lexer, gml/lexer.rs. src is the source as bytes, pos the number of      *)
(* bytes the iterator has yielded, buf the number buffer.                  *)

new(src) == [src |-> src, buf |-> <<>>, line_hint |-> 1, pos |-> 0]

\* self.iter.peek(): the next byte, -1 for None
peek(l) == IF l.pos < Len(l.src) THEN l.src[l.pos + 1] ELSE -1

\* self.iter.next(): nothing is left to yield at the end
skip_byte(l) == IF l.pos < Len(l.src) THEN [l EXCEPT !.pos = @ + 1] ELSE l

\* to_str(src, from..to)
to_str(src, from, to) == SubSeq(src, from + 1, to)

LetterBytes == (65..90) \cup (97..122) \cup {95}

DigitBytes == 48..57

HexBytes == DigitBytes \cup (97..102) \cup (65..70)

\* [lex, skip]: lines 35-48
RECURSIVE fast_forward(_, _)
fast_forward(l, lines_skipped) ==
    IF peek(l) # -1 /\ peek(l) <= 32
    THEN fast_forward(skip_byte(l), lines_skipped + (IF peek(l) = 10 THEN 1 ELSE 0))
    ELSE [lex |-> l, skip |-> lines_skipped]

Keywords ==
    {<<118, 97, 114>>, <<105, 102>>, <<101, 108, 115, 101>>, <<119, 105, 116, 104>>,
     <<114, 101, 112, 101, 97, 116>>, <<100, 111>>, <<117, 110, 116, 105, 108>>,
     <<119, 104, 105, 108, 101>>, <<102, 111, 114>>, <<115, 119, 105, 116, 99, 104>>,
     <<99, 97, 115, 101>>, <<100, 101, 102, 97, 117, 108, 116>>,
     <<98, 114, 101, 97, 107>>, <<99, 111, 110, 116, 105, 110, 117, 101>>,
     <<114, 101, 116, 117, 114, 110>>, <<101, 120, 105, 116>>}

WordOperators ==
    {<<109, 111, 100>>, <<100, 105, 118>>, <<97, 110, 100>>, <<111, 114>>,
     <<120, 111, 114>>, <<110, 111, 116>>}

WordSeparators ==
    {<<116, 104, 101, 110>>, <<98, 101, 103, 105, 110>>, <<101, 110, 100>>}

\* the loop at 74-84, then the match at 87-118
RECURSIVE lex_identifier_end(_)
lex_identifier_end(l) ==
    IF peek(l) \in LetterBytes \cup DigitBytes THEN lex_identifier_end(skip_byte(l)) ELSE l

lex_identifier(l) ==
    With(lex_identifier_end(l), LAMBDA e :
    With(to_str(l.src, l.pos, e.pos), LAMBDA identifier :
        [tok |-> IF identifier \in Keywords THEN "Keyword"
                 ELSE IF identifier \in WordOperators THEN "Operator"
                 ELSE IF identifier \in WordSeparators THEN "Separator"
                 ELSE "Identifier",
         lex |-> e]))

\* the loop at 137-162
RECURSIVE lex_real_loop(_, _)
lex_real_loop(l, has_decimal) ==
    IF peek(l) \in DigitBytes
    THEN lex_real_loop(skip_byte([l EXCEPT !.buf = Append(@, peek(l))]), has_decimal)
    ELSE IF peek(l) = 46
    THEN IF ~ has_decimal
         THEN lex_real_loop(skip_byte([l EXCEPT !.buf = Append(@, 46)]), TRUE)
         ELSE IF l.buf # <<46>> THEN lex_real_loop(skip_byte(l), has_decimal)
         ELSE l
    ELSE l

\* lines 133-174
lex_real(l) ==
    With(lex_real_loop([l EXCEPT !.buf = <<>>], FALSE), LAMBDA e :
        [tok |-> IF e.buf = <<46>> THEN "Separator" ELSE "Real", lex |-> e])

\* the loop at 193-202: up to the closing quote, which is consumed
RECURSIVE lex_string_loop(_, _)
lex_string_loop(l, quote) ==
    IF peek(l) = -1 \/ peek(l) = quote THEN skip_byte(l)
    ELSE lex_string_loop(skip_byte(l), quote)

\* lines 183-204
lex_string(l) ==
    With(skip_byte(l), LAMBDA inner :
        [tok |-> "String",
         lex |-> IF peek(inner) = -1 THEN inner ELSE lex_string_loop(inner, peek(l))])

\* the loop at 217-227
RECURSIVE lex_hex_loop(_)
lex_hex_loop(l) == IF peek(l) \in HexBytes THEN lex_hex_loop(skip_byte(l)) ELSE l

\* lines 208-237
lex_hex(l) == [tok |-> "Real", lex |-> lex_hex_loop(skip_byte(l))]

\* ! & * + - / < = > ^ | ~
OperatorBytes == {33, 38, 42, 43, 45, 47, 60, 61, 62, 94, 124, 126}

\* ( ) , : ; [ ] { }
SeparatorBytes == {40, 41, 44, 58, 59, 91, 93, 123, 125}

\* op_sep_ch, lines 241-264
op_sep_ch(ch) ==
    IF (ch % 128) \in OperatorBytes THEN "Operator"
    ELSE IF (ch % 128) \in SeparatorBytes THEN "Separator"
    ELSE "InvalidChar"

\* && || ^^ << >> ==
RepeatedCombos == {38, 124, 94, 60, 62, 61}

\* != <= >= += -= *= /= &= |= ^=
EqCombos == {33, 60, 62, 43, 45, 42, 47, 38, 124, 94}

\* the loop at 294-304: up to a line end, which is left in place
RECURSIVE lex_line_comment_loop(_)
lex_line_comment_loop(l) ==
    IF peek(l) \in {-1, 10, 13} THEN l ELSE lex_line_comment_loop(skip_byte(l))

\* the loop at 345-366
RECURSIVE lex_block_comment_loop(_)
lex_block_comment_loop(l) ==
    IF peek(l) = -1 THEN l
    ELSE IF peek(l) = 42
    THEN With(skip_byte(l), LAMBDA star :
             IF peek(star) = -1 THEN star
             ELSE IF peek(star) = 47 THEN skip_byte(star)
             ELSE lex_block_comment_loop(star))
    ELSE lex_block_comment_loop(skip_byte(l))

\* lines 240-374: head is the byte under the iterator
lex_operator(l) ==
    With(peek(l), LAMBDA head :
    With(skip_byte(l), LAMBDA one :
    With(peek(one), LAMBDA ch2 :
        IF op_sep_ch(head) # "Operator" THEN [tok |-> op_sep_ch(head), lex |-> one]
        ELSE IF ch2 = -1 THEN [tok |-> "Operator", lex |-> one]
        ELSE IF head = ch2
        THEN IF head = 47
             THEN [tok |-> "Comment", lex |-> lex_line_comment_loop(skip_byte(one))]
             ELSE IF head \in RepeatedCombos
             THEN [tok |-> "Operator", lex |-> skip_byte(one)]
             ELSE [tok |-> "Operator", lex |-> one]
        ELSE IF ch2 = 61
        THEN IF head \in EqCombos THEN [tok |-> "Operator", lex |-> skip_byte(one)]
             ELSE [tok |-> "Operator", lex |-> one]
        ELSE IF head = 47 /\ ch2 = 42
        THEN [tok |-> "Comment", lex |-> lex_block_comment_loop(skip_byte(one))]
        ELSE [tok |-> "Operator", lex |-> one])))

\* lines 377-380: the byte is skipped
mutant_lex_invalid(l) == [tok |-> "InvalidChar", lex |-> l]

lex_invalid(l) == [tok |-> "InvalidChar", lex |-> skip_byte(l)]

\* Lexer::next, lines 51-383: [tok, lex], tok "None" for None
next(l) ==
    With(fast_forward(l, 0), LAMBDA f :
    With(peek(f.lex), LAMBDA head :
        IF f.skip > 0
        THEN [tok |-> "LineHint", lex |-> [f.lex EXCEPT !.line_hint = @ + f.skip]]
        ELSE IF head = -1 THEN [tok |-> "None", lex |-> f.lex]
        ELSE IF head \in LetterBytes THEN lex_identifier(f.lex)
        ELSE IF head \in DigitBytes \cup {46} THEN lex_real(f.lex)
        ELSE IF head \in {34, 39} THEN lex_string(f.lex)
        ELSE IF head = 36 THEN lex_hex(f.lex)
        ELSE IF head <= 126 THEN lex_operator(f.lex)
        ELSE lex_invalid(f.lex)))

-----------------------------------------------------------------------------
(* SpecLexer: a Lexer over a short source, iterated until it returns None. *)

MaxSrc == 3

\* line feed, space, " $ * . / 1 = a and DEL
LexBytes == {10, 32, 34, 36, 42, 46, 47, 49, 61, 97, 127}

RECURSIVE LexSources(_)
LexSources(n) ==
    IF n = 0 THEN {<<>>}
    ELSE LET shorter == LexSources(n - 1)
         IN shorter \cup {Append(s, b) : s \in {x \in shorter : Len(x) = n - 1},
                                         b \in LexBytes}

LexSamples ==
    {<<47, 42, 42, 47>>, <<47, 42, 97, 42, 47, 97>>, <<47, 42, 42, 42, 47>>,
     <<47, 47, 97, 10, 97>>, <<105, 102, 32, 97, 61, 61, 49, 32, 10>>,
     <<49, 46, 53, 46, 53>>, <<46, 46, 49>>, <<39, 97, 34, 39>>, <<36, 102, 102, 43>>,
     <<97, 60, 61, 49, 59>>, <<195, 169>>, <<109, 111, 100, 13, 10>>, <<34, 97>>,
     <<97, 32, 32>>}

InitLexer ==
    /\ pc = "lexer"
    /\ exe = NoBuffer
    /\ orig = NoBuffer
    /\ logger = FALSE
    /\ build = "release"
    /\ result = "none"
    /\ trace = <<>>
    /\ unpacked = NoBuffer
    /\ params = NoParams
    /\ gm81 = NoGm81
    /\ upx = NoUpx
    /\ prior = NoPrior
    /\ constants = NoConstants
    /\ calls = <<>>
    /\ \E src \in LexSources(MaxSrc) \cup LexSamples : lexer = new(src)
    /\ tokens = <<>>

\* one call of next by a for loop over the lexer, which stops at None
LexerNext ==
    /\ pc = "lexer"
    /\ LET r == next(lexer)
       IN /\ lexer' = r.lex
          /\ tokens' = Append(tokens, r.tok)
          /\ pc' = IF r.tok = "None" THEN "done" ELSE "lexer"
    /\ UNCHANGED <<exe, orig, logger, build, result, trace, unpacked, params, gm81,
                   upx, prior, constants, calls>>

NextLexer == LexerNext

SpecLexer == InitLexer /\ [][NextLexer]_vars

-----------------------------------------------------------------------------
(* Claims about Lexer::next (SpecLexer).                                   *)

\* the bytes the iterator has not yielded
Unconsumed(l) == {l.src[i] : i \in (l.pos + 1)..Len(l.src)}

\* the tokens returned so far, None left out
Returned == SelectSeq(tokens, LAMBDA k : k # "None")

\* C27: every call of next that returns a token consumes at least one byte,
\* and next returns None only when every byte not yet consumed is whitespace
\* (at most a space); so the iteration ends after at most as many tokens as
\* the source has bytes.
C27_EveryTokenConsumes ==
    /\ [][pc = "lexer" =>
            /\ tokens' = Append(tokens, tokens'[Len(tokens')])
            /\ tokens'[Len(tokens')] # "None" => lexer'.pos > lexer.pos
            /\ tokens'[Len(tokens')] = "None" => \A b \in Unconsumed(lexer) : b <= 32
            /\ lexer'.pos <= Len(lexer.src) /\ lexer'.src = lexer.src]_vars
    /\ [](pc \in {"lexer", "done"} => Len(Returned) <= lexer.pos)
    /\ [](pc \in {"lexer", "done"} => Len(Returned) <= Len(lexer.src))
    /\ [](pc = "done" => lexer.pos = Len(lexer.src))

C27_Witness ==
    /\ pc = "done"
    /\ Len(lexer.src) = 9
    /\ tokens = <<"Keyword", "Identifier", "Operator", "Real", "LineHint", "None">>

====
